---- MODULE Spec2Model ----
(***************************************************************************)
(* InstaFacts: the data-layer contract and its four implementations.       *)
(*                                                                         *)
(*   createLocalDataLayer     src/src/App.tsx  (localStorage-backed store)  *)
(*   createSupabaseDataLayer  src/src/App.tsx  (posts/comments/replies)     *)
(*   createSupabaseLayer      src/App.tsx      (posts/comments, tree build) *)
(*   createLocalLayer         src/App.tsx      (in-memory store)            *)
(*                                                                         *)
(* useDataLayer exposes exactly one of them; the variable `layer` says      *)
(* which, and only that layer's part of the state moves.                    *)
(*                                                                         *)
(* Text (captions, comment contents, LocalData usernames) is a sequence of  *)
(* one-token strings, so that trim(), toLowerCase() and the "[reply:ID] "   *)
(* prefix encoding are computed, not assumed.  A reaction array is a set of *)
(* user ids (the code always builds it from a Set).                         *)
(***************************************************************************)
EXTENDS Integers, Sequences, FiniteSets, TLC

\* ------------------------------------------------------------- bounds
\* ids ever handed out per kind (uid() never repeats, so these also bound
\* how many users, posts and comment/reply rows a behaviour creates)
MaxUsers == 2
MaxPosts == 3
MaxComments == 3
\* rows drawn by the pure tree-building specification
MaxRows == 3

Null == "null"

LocalData == "createLocalDataLayer"
SupabaseData == "createSupabaseDataLayer"
SupabaseLayer == "createSupabaseLayer"
LocalLayer == "createLocalLayer"
Layers == {LocalData, SupabaseData, SupabaseLayer, LocalLayer}

\* ------------------------------------------------------------- text
Space == " "

\* uid(prefix): a fresh id; the n-th id of a kind
Uid(prefix, n) == prefix \o ToString(n)

RECURSIVE TrimStart(_)
TrimStart(s) == IF s # <<>> /\ Head(s) = Space THEN TrimStart(Tail(s)) ELSE s

RECURSIVE TrimEnd(_)
TrimEnd(s) ==
  IF s # <<>> /\ s[Len(s)] = Space THEN TrimEnd(SubSeq(s, 1, Len(s) - 1)) ELSE s

\* String.prototype.trim
Trim(s) == TrimEnd(TrimStart(s))

LowerChar(c) == IF c = "A" THEN "a" ELSE IF c = "B" THEN "b" ELSE c

\* String.prototype.toLowerCase
toLowerCase(s) == [i \in 1..Len(s) |-> LowerChar(s[i])]

\* the literal text "[reply:ID]" as one token
ReplyTag(id) == "[reply:" \o id \o "]"

\* ids a "[reply:ID]" token of the model may carry: every comment id the
\* backend can hand out, and one id no row ever has
NoSuchId == "c0"
TagIds == {Uid("c", n) : n \in 1..(MaxComments + 1)} \cup {NoSuchId}

IsReplyTag(tok) == \E k \in TagIds : tok = ReplyTag(k)

\* row.content.match(/^\[reply:([^\]]+)\]\s*/): the captured id, or Null
ReplyMatch(content) ==
  IF content # <<>> /\ IsReplyTag(Head(content))
  THEN CHOOSE k \in TagIds : Head(content) = ReplyTag(k)
  ELSE Null

\* row.content.replace(/^\[reply:[^\]]+\]\s*/, '')
StripReplyPrefix(content) ==
  IF ReplyMatch(content) # Null THEN TrimStart(Tail(content)) ELSE content

\* `[reply:${commentId}] ${content}`
EncodeReply(commentId, content) == <<ReplyTag(commentId), Space>> \o content

\* ------------------------------------------------------------- sequences
MapSeq(s, F(_)) == [i \in 1..Len(s) |-> F(s[i])]

SeqToSet(s) == {s[i] : i \in 1..Len(s)}

\* ------------------------------------------------------------- state
VARIABLES
  layer,          \* which implementation useDataLayer exposed
  users,          \* createLocalDataLayer: users
  currentUserId,  \* createLocalDataLayer: currentUserId; createLocalLayer: state.currentUser's id
  posts,          \* createLocalDataLayer: posts; createLocalLayer: state.posts
  profiles,       \* createLocalLayer: state.profiles; backend table profiles
  accounts,       \* backend auth accounts
  session,        \* backend auth session: the signed-in account's id
  postRows,       \* backend table posts
  commentRows,    \* backend table comments
  replyRows,      \* backend table replies (createSupabaseDataLayer)
  parentColumn,   \* whether the backend's comments table has a parent_id column
  now,            \* Date.now() / the backend clock at the latest creation
  nextId,         \* how many ids of each kind were handed out
  last,           \* history: the latest call, its caller, arguments and outcome
  prev,           \* history: the call before a toggleReactPost
  listed,         \* history: what listPosts returned before the latest call
  view,           \* what the latest createSupabaseLayer.listPosts built
  storage,        \* backend object storage: the uploaded files, in upload order
  cache,          \* createSupabaseLayer: the profile cache (const cache = new Map())
  channel,        \* the tables the realtime channel listens on, none when detached
  notified,       \* history: whether the latest step made the backend invoke onChange
  submitted,      \* history: what the composer was asked to submit in the latest step
  env,            \* the build and its import.meta.env settings
  mounts,         \* useDataLayer: one entry per run of its effect
  ls,             \* localStorage: the items under the three LS_KEYS
  calls,          \* backend calls that have read and not yet written
  rendered        \* App: the posts state (setPosts) and the listPosts calls in flight

localVars == <<users, currentUserId, posts>>
backendVars == <<accounts, session, postRows, commentRows, replyRows>>
vars == <<layer, users, currentUserId, posts, profiles, accounts, session,
          postRows, commentRows, replyRows, parentColumn, now, nextId,
          last, prev, listed, view, storage, cache, channel, notified, submitted,
          env, mounts, ls, calls, rendered>>

NoCall == [op |-> "none", caller |-> Null, ok |-> TRUE, args |-> <<>>, upBefore |-> {},
           error |-> Null, result |-> Null]

Call(op, caller, ok, args) ==
  [op |-> op, caller |-> caller, ok |-> ok, args |-> args, upBefore |-> {},
   error |-> Null, result |-> Null]

\* the storage path of the idx-th file a user uploads at a time:
\* `${u.id}/${Date.now()}_${idx++}.ext`
Path(userId, at, idx) == <<userId, at, idx>>

\* an object of the storage bucket
Object(path, type) == [path |-> path, type |-> type]

\* the objects the media_urls of the rows name
RECURSIVE ObjectsOf(_)
ObjectsOf(rows) ==
  IF rows = <<>> THEN <<>>
  ELSE [i \in 1..Len(Head(rows).media_urls) |->
          Object(Head(rows).media_urls[i], Head(rows).media_types[i])]
       \o ObjectsOf(Tail(rows))

\* the composer was not asked to submit
NoSubmission == [made |-> FALSE, files |-> <<>>, caption |-> <<>>]

\* what the bucket holds when every stored post was uploaded without failure
StoredObjects == ObjectsOf(postRows)

\* the two builds of the app
AppA == "src/App.tsx"
AppB == "src/src/App.tsx"

\* values of VITE_SUPABASE_URL: unset, set to text createClient rejects, set
\* to a project URL
NoUrl == Null
BadUrl == "not a url"
ProjectUrl == "https://project.supabase.co"

\* a value of VITE_SUPABASE_ANON_KEY
AnonKey == "anon key"

\* the build and settings under which useDataLayer exposes the given layer
EnvOf(l) ==
  [build |-> IF l \in {LocalLayer, SupabaseLayer} THEN AppA ELSE AppB,
   url |-> IF l \in {SupabaseLayer, SupabaseData} THEN ProjectUrl ELSE NoUrl,
   anon |-> IF l \in {SupabaseLayer, SupabaseData} THEN AnonKey ELSE Null,
   adminEmail |-> Null]

\* localStorage.getItem(key) of a key never set
NoItem == <<>>

\* JSON.stringify(value) as the item setItem stores: the text of one value
JSONstringify(value) == <<value>>

\* JSON.parse(raw)
JSONparse(raw) == raw[1]

\* what persist() leaves under the three keys
Items(us, ps, id) ==
  [users |-> JSONstringify(us), posts |-> JSONstringify(ps),
   currentUserId |-> JSONstringify(id)]

\* the posts state before the first refresh, no listPosts in flight; stale says
\* whether the list shown was fetched before a later change of the store
NothingRendered == [posts |-> <<>>, stale |-> FALSE, inFlight |-> <<>>]

\* the bucket holds the media of the stored posts; nothing cached, no channel,
\* no composer at work, no call in flight; the effect of useDataLayer has run
\* and localStorage holds what the store last saved
InitIdle ==
  /\ storage = StoredObjects
  /\ cache = {}
  /\ channel = {}
  /\ notified = FALSE
  /\ submitted = NoSubmission
  /\ env = EnvOf(layer)
  /\ mounts = <<>>
  /\ ls = IF layer = LocalData /\ (users # <<>> \/ posts # <<>>)
          THEN Items(users, posts, currentUserId)
          ELSE [users |-> NoItem, posts |-> NoItem, currentUserId |-> NoItem]
  /\ calls = <<>>
  /\ rendered = NothingRendered

\* the state right after a data layer is constructed on empty storage and an
\* empty backend
Init ==
  /\ layer \in Layers
  /\ users = <<>>
  /\ currentUserId = Null
  /\ posts = <<>>
  /\ profiles = {}
  /\ accounts = {}
  /\ session = Null
  /\ postRows = <<>>
  /\ commentRows = <<>>
  /\ replyRows = <<>>
  /\ parentColumn \in IF layer = SupabaseLayer THEN BOOLEAN ELSE {FALSE}
  /\ now = 2
  /\ nextId = [user |-> 0, post |-> 0, c |-> 0]
  /\ last = NoCall
  /\ prev = NoCall
  /\ listed = <<>>
  /\ view = Null
  /\ InitIdle

\* every action records the call; prev and listed are kept by the specification's
\* next-state relation (KeepPrev, NoPrev, KeepListed)
Journal(call) == /\ last' = call
                 /\ UNCHANGED <<layer, parentColumn, view, env, mounts, calls>>

\* a call that leaves localStorage alone
Log(call) == Journal(call) /\ UNCHANGED ls

\* a call that neither uploads, nor touches the profile cache, the channel or
\* localStorage
Record(call) == Log(call) /\ UNCHANGED <<storage, cache, channel>>

\* persist(): saveLS of users, posts and currentUserId as the call leaves them
persist == ls' = Items(users', posts', currentUserId')

\* a call of createLocalDataLayer that ends with persist(); the save itself is
\* the last conjunct of the action
Persisted(call) == Journal(call) /\ UNCHANGED <<storage, cache, channel>>

\* a toggleReactPost call also records the post's up-set as the call found it
RecordToggle(call, before) == Record([call EXCEPT !.upBefore = before])

\* postgres_changes: the backend invokes onChange when a table the channel
\* listens on changed
Realtime ==
  notified' = IF channel = {} THEN FALSE
              ELSE \/ "posts" \in channel /\ postRows' # postRows
                   \/ "comments" \in channel /\ commentRows' # commentRows
                   \/ "replies" \in channel /\ replyRows' # replyRows

\* a step that neither issues nor resolves a refresh() of App
NoRefresh == UNCHANGED rendered

\* a step taken without the composer
NoComposer == Realtime /\ submitted' = NoSubmission /\ NoRefresh

KeepPrev ==
  /\ prev' = IF last'.op = "toggleReactPost" THEN last ELSE NoCall
  /\ listed' = <<>>
  /\ NoComposer

NoPrev == prev' = NoCall /\ listed' = <<>> /\ NoComposer

\* ------------------------------------------------------------- reactions
\* variant: the opposite set is left alone when a vote is added
ToggleSets_keepOther(up, down, id, type) ==
  IF type = "up"
  THEN IF id \in up THEN [up |-> up \ {id}, down |-> down]
                    ELSE [up |-> up \cup {id}, down |-> down]
  ELSE IF id \in down THEN [up |-> up, down |-> down \ {id}]
                      ELSE [up |-> up, down |-> down \cup {id}]

\* variant: an up-vote is never taken back
ToggleSets_addOnly(up, down, id, type) ==
  IF type = "up"
  THEN [up |-> up \cup {id}, down |-> down \ {id}]
  ELSE IF id \in down THEN [up |-> up, down |-> down \ {id}]
                      ELSE [up |-> up \ {id}, down |-> down \cup {id}]

\* up.has(id) ? up.delete(id) : (up.add(id), down.delete(id)), and the
\* mirror image for 'down'
ToggleSets(up, down, id, type) ==
  IF type = "up"
  THEN IF id \in up THEN [up |-> up \ {id}, down |-> down]
                    ELSE [up |-> up \cup {id}, down |-> down \ {id}]
  ELSE IF id \in down THEN [up |-> up, down |-> down \ {id}]
                      ELSE [up |-> up \ {id}, down |-> down \cup {id}]

\* { ...item, likesUp:[...up], likesDown:[...down] }
ToggleItem(item, id, type) ==
  LET t == ToggleSets(item.likesUp, item.likesDown, id, type)
  IN [item EXCEPT !.likesUp = t.up, !.likesDown = t.down]

\* ------------------------------------------------------------- shared shapes
Alice == <<"a", "l", "i", "c", "e">>
Bob == <<"b", "o", "b">>

\* a post of the UI model; media is the list of its media type tags
NewPost(id, userId, media, caption, createdAt) ==
  [id |-> id, userId |-> userId, media |-> media, caption |-> caption,
   createdAt |-> createdAt, comments |-> <<>>, likesUp |-> {}, likesDown |-> {},
   edited |-> FALSE]

\* a comment or reply of the UI model
NewComment(id, userId, content, createdAt) ==
  [id |-> id, userId |-> userId, content |-> content, createdAt |-> createdAt,
   replies |-> <<>>, likesUp |-> {}, likesDown |-> {}, edited |-> FALSE]

\* file.type.startsWith("video") ? "video" : "image"
MediaType(fileType) == IF fileType = "video" THEN "video" ELSE "image"

\* a call that throws, or returns early, changes nothing but the history
Unchanged == UNCHANGED <<users, currentUserId, posts, profiles, accounts, session,
                         postRows, commentRows, replyRows, now, nextId>>

Throws(op, caller, args) == Record(Call(op, caller, FALSE, args)) /\ Unchanged

\* throw new Error(message)
ThrowsError(op, caller, args, message) ==
  Record([Call(op, caller, FALSE, args) EXCEPT !.error = message]) /\ Unchanged

LoginRequired == "Login required"

\* a constraint of the backend rejected the statement
BackendError == "backend error"

\* throw new Error("Invalid credentials")
InvalidCredentials == "Invalid credentials"

\* throw new Error('Username not found'), thrown before signInWithPassword
UsernameNotFound == "Username not found"

\* the error auth.signInWithPassword returns for an unknown email or a wrong
\* password
InvalidLogin == "Invalid login credentials"

\* ------------------------------------------------------------- createLocalDataLayer
\* get currentUser(){ return users.find(u=>u.id===currentUserId)||null; }  (its id)
LocalData_currentUser ==
  IF \E i \in 1..Len(users) : users[i].id = currentUserId THEN currentUserId ELSE Null

LocalData_usernameTaken(name) ==
  \E i \in 1..Len(users) : toLowerCase(users[i].username) = toLowerCase(name)

LocalData_signUp(username, password, bio) ==
  /\ layer = LocalData
  /\ LET name == Trim(username)
         a == [username |-> username, password |-> password]
         id == Uid("user", nextId.user + 1)
     IN IF name = <<>> \/ password = ""
        THEN Throws("signUp", LocalData_currentUser, a)
        ELSE IF LocalData_usernameTaken(name)
        THEN Throws("signUp", LocalData_currentUser, a)
        ELSE /\ nextId.user < MaxUsers
             /\ users' = Append(users, [id |-> id, username |-> name,
                                        password |-> password, bio |-> bio])
             /\ currentUserId' = id
             /\ nextId' = [nextId EXCEPT !.user = @ + 1]
             /\ Persisted(Call("signUp", LocalData_currentUser, TRUE, a))
             /\ UNCHANGED <<posts, profiles, backendVars, now>>
             /\ persist

LocalData_signIn(username, password) ==
  /\ layer = LocalData
  /\ LET found == {i \in 1..Len(users) :
                     toLowerCase(users[i].username) = toLowerCase(Trim(username))}
         a == [username |-> username, password |-> password]
     IN IF found = {} \/ users[CHOOSE i \in found : \A j \in found : i <= j].password # password
        THEN ThrowsError("signIn", LocalData_currentUser, a, InvalidCredentials)
        ELSE /\ currentUserId' = users[CHOOSE i \in found : \A j \in found : i <= j].id
             /\ Persisted(Call("signIn", LocalData_currentUser, TRUE, a))
             /\ UNCHANGED <<users, posts, profiles, backendVars, now, nextId>>
             /\ persist

LocalData_signOut ==
  /\ layer = LocalData
  /\ currentUserId' = Null
  /\ Persisted(Call("signOut", LocalData_currentUser, TRUE, <<>>))
  /\ UNCHANGED <<users, posts, profiles, backendVars, now, nextId>>
  /\ persist

\* [...posts].sort((a,b)=>b.createdAt-a.createdAt): a stable insertion sort,
\* newest first
RECURSIVE SortNewestFirst(_)
SortNewestFirst(s) ==
  IF s = <<>> THEN <<>>
  ELSE LET rest == SortNewestFirst(Tail(s))
           k == Cardinality({i \in 1..Len(rest) : rest[i].createdAt > Head(s).createdAt})
       IN SubSeq(rest, 1, k) \o <<Head(s)>> \o SubSeq(rest, k + 1, Len(rest))

\* variant: the stored array is returned as it is
LocalData_listPosts_stored == posts

\* posts = loadLS(...); return [...posts].sort((a,b)=>b.createdAt-a.createdAt)
LocalData_listPosts == SortNewestFirst(posts)

LocalData_createPost(fileType, caption, dt) ==
  /\ layer = LocalData
  /\ LET cu == LocalData_currentUser
         a == [caption |-> caption]
     IN IF cu = Null
        THEN ThrowsError("createPost", cu, a, LoginRequired)
        ELSE /\ nextId.post < MaxPosts
             /\ now' = now + dt
             /\ nextId' = [nextId EXCEPT !.post = @ + 1]
             /\ posts' = <<NewPost(Uid("post", nextId.post + 1), cu,
                                   <<MediaType(fileType)>>, Trim(caption), now')>> \o posts
             /\ Persisted(Call("createPost", cu, TRUE, a))
             /\ UNCHANGED <<users, currentUserId, profiles, backendVars>>
             /\ persist

\* p.id===postId && p.userId===cu?.id
LocalData_ownPost(p, postId) == p.id = postId /\ p.userId = LocalData_currentUser

\* variant: the caption is replaced but the edited mark is not set
LocalData_updatePost_unmarked(postId, caption) ==
  /\ layer = LocalData
  /\ posts' = MapSeq(posts, LAMBDA p :
                 IF LocalData_ownPost(p, postId)
                 THEN [p EXCEPT !.caption = Trim(caption)] ELSE p)
  /\ Persisted(Call("updatePost", LocalData_currentUser, TRUE,
                 [postId |-> postId, caption |-> caption]))
  /\ UNCHANGED <<users, currentUserId, profiles, backendVars, now, nextId>>
  /\ persist

LocalData_updatePost(postId, caption) ==
  /\ layer = LocalData
  /\ posts' = MapSeq(posts, LAMBDA p :
                 IF LocalData_ownPost(p, postId)
                 THEN [p EXCEPT !.caption = Trim(caption), !.edited = TRUE] ELSE p)
  /\ Persisted(Call("updatePost", LocalData_currentUser, TRUE,
                 [postId |-> postId, caption |-> caption]))
  /\ UNCHANGED <<users, currentUserId, profiles, backendVars, now, nextId>>
  /\ persist

LocalData_deletePost(postId) ==
  /\ layer = LocalData
  /\ posts' = SelectSeq(posts, LAMBDA p : ~LocalData_ownPost(p, postId))
  /\ Persisted(Call("deletePost", LocalData_currentUser, TRUE, [postId |-> postId]))
  /\ UNCHANGED <<users, currentUserId, profiles, backendVars, now, nextId>>
  /\ persist

LocalData_addComment(postId, content, dt) ==
  /\ layer = LocalData
  /\ LET cu == LocalData_currentUser
         a == [postId |-> postId, content |-> content]
         c == NewComment(Uid("c", nextId.c + 1), cu, Trim(content), now + dt)
     IN IF cu = Null
        THEN ThrowsError("addComment", cu, a, LoginRequired)
        ELSE /\ nextId.c < MaxComments
             /\ now' = now + dt
             /\ nextId' = [nextId EXCEPT !.c = @ + 1]
             /\ posts' = MapSeq(posts, LAMBDA p :
                           IF p.id # postId THEN p
                           ELSE [p EXCEPT !.comments = Append(@, c)])
             /\ Persisted(Call("addComment", cu, TRUE, a))
             /\ UNCHANGED <<users, currentUserId, profiles, backendVars>>
             /\ persist

LocalData_addReply(postId, commentId, content, dt) ==
  /\ layer = LocalData
  /\ LET cu == LocalData_currentUser
         a == [postId |-> postId, commentId |-> commentId, content |-> content]
         r == NewComment(Uid("r", nextId.c + 1), cu, Trim(content), now + dt)
     IN IF cu = Null
        THEN ThrowsError("addReply", cu, a, LoginRequired)
        ELSE /\ nextId.c < MaxComments
             /\ now' = now + dt
             /\ nextId' = [nextId EXCEPT !.c = @ + 1]
             /\ posts' = MapSeq(posts, LAMBDA p :
                           IF p.id # postId THEN p
                           ELSE [p EXCEPT !.comments = MapSeq(@, LAMBDA c :
                                   IF c.id # commentId THEN c
                                   ELSE [c EXCEPT !.replies = Append(@, r)])])
             /\ Persisted(Call("addReply", cu, TRUE, a))
             /\ UNCHANGED <<users, currentUserId, profiles, backendVars>>
             /\ persist

LocalData_toggleReactPost(postId, type) ==
  /\ layer = LocalData
  /\ LET cu == LocalData_currentUser
         a == [postId |-> postId, type |-> type]
         before == UNION {p.likesUp : p \in {q \in SeqToSet(posts) : q.id = postId}}
     IN /\ IF cu = Null
           THEN UNCHANGED posts
           ELSE posts' = MapSeq(posts, LAMBDA p :
                           IF p.id # postId THEN p ELSE ToggleItem(p, cu, type))
        /\ Journal([Call("toggleReactPost", cu, TRUE, a) EXCEPT !.upBefore = before])
        /\ UNCHANGED <<storage, cache, channel>>
        /\ UNCHANGED <<users, currentUserId, profiles, backendVars, now, nextId>>
        /\ IF cu = Null THEN UNCHANGED ls ELSE persist

\* const target = replyId ? (c.replies||[]) : [c]; every item of target is toggled
LocalData_toggleReactComment(postId, commentId, replyId, type) ==
  /\ layer = LocalData
  /\ LET cu == LocalData_currentUser
         a == [postId |-> postId, commentId |-> commentId, replyId |-> replyId,
               type |-> type]
     IN /\ IF cu = Null
           THEN UNCHANGED posts
           ELSE posts' = MapSeq(posts, LAMBDA p :
                  IF p.id # postId THEN p
                  ELSE [p EXCEPT !.comments = MapSeq(@, LAMBDA c :
                          IF c.id # commentId THEN c
                          ELSE IF replyId # Null
                          THEN [c EXCEPT !.replies =
                                  MapSeq(@, LAMBDA r : ToggleItem(r, cu, type))]
                          ELSE ToggleItem(c, cu, type))])
        /\ IF cu = Null
           THEN Record(Call("toggleReactComment", cu, TRUE, a))
           ELSE Persisted(Call("toggleReactComment", cu, TRUE, a))
        /\ UNCHANGED <<users, currentUserId, profiles, backendVars, now, nextId>>
        /\ IF cu = Null THEN TRUE ELSE persist

\* editComment: a comment is rewritten when c.userId===cu?.id, a reply when
\* r.id===replyId && r.userId===cu?.id; content.trim(), edited:true
LocalData_editComment(postId, commentId, replyId, content) ==
  /\ layer = LocalData
  /\ LET cu == LocalData_currentUser
         a == [postId |-> postId, commentId |-> commentId, replyId |-> replyId,
               content |-> content]
     IN /\ posts' = MapSeq(posts, LAMBDA p :
               IF p.id # postId THEN p
               ELSE [p EXCEPT !.comments = MapSeq(@, LAMBDA c :
                       IF c.id # commentId THEN c
                       ELSE IF replyId = Null
                       THEN IF c.userId # cu THEN c
                            ELSE [c EXCEPT !.content = Trim(content), !.edited = TRUE]
                       ELSE [c EXCEPT !.replies = MapSeq(@, LAMBDA r :
                               IF r.id = replyId /\ r.userId = cu
                               THEN [r EXCEPT !.content = Trim(content), !.edited = TRUE]
                               ELSE r)])])
        /\ Persisted(Call("editComment", cu, TRUE, a))
        /\ UNCHANGED <<users, currentUserId, profiles, backendVars, now, nextId>>
        /\ persist

\* variant: a comment or reply is removed whoever asks
LocalData_deleteComment_byAnyone(postId, commentId, replyId) ==
  /\ layer = LocalData
  /\ LET cu == LocalData_currentUser
         a == [postId |-> postId, commentId |-> commentId, replyId |-> replyId]
     IN /\ posts' = MapSeq(posts, LAMBDA p :
               IF p.id # postId THEN p
               ELSE IF replyId = Null
               THEN [p EXCEPT !.comments = SelectSeq(@, LAMBDA c : ~(c.id = commentId))]
               ELSE [p EXCEPT !.comments = MapSeq(@, LAMBDA c :
                       IF c.id # commentId THEN c
                       ELSE [c EXCEPT !.replies =
                               SelectSeq(@, LAMBDA r : ~(r.id = replyId))])])
        /\ Persisted(Call("deleteComment", cu, TRUE, a))
        /\ UNCHANGED <<users, currentUserId, profiles, backendVars, now, nextId>>
        /\ persist

\* deleteComment: comments.filter(c=>!(c.id===commentId && c.userId===cu?.id)), or
\* for a reply replies.filter(r=>!(r.id===replyId && r.userId===cu?.id))
LocalData_deleteComment(postId, commentId, replyId) ==
  /\ layer = LocalData
  /\ LET cu == LocalData_currentUser
         a == [postId |-> postId, commentId |-> commentId, replyId |-> replyId]
     IN /\ posts' = MapSeq(posts, LAMBDA p :
               IF p.id # postId THEN p
               ELSE IF replyId = Null
               THEN [p EXCEPT !.comments =
                       SelectSeq(@, LAMBDA c : ~(c.id = commentId /\ c.userId = cu))]
               ELSE [p EXCEPT !.comments = MapSeq(@, LAMBDA c :
                       IF c.id # commentId THEN c
                       ELSE [c EXCEPT !.replies =
                               SelectSeq(@, LAMBDA r : ~(r.id = replyId /\ r.userId = cu))])])
        /\ Persisted(Call("deleteComment", cu, TRUE, a))
        /\ UNCHANGED <<users, currentUserId, profiles, backendVars, now, nextId>>
        /\ persist

\* seed(): only on an empty store; currentUserId is set after persist()
\* seed(){ if (users.length||posts.length) return; ...; persist();
\* currentUserId=a.id; }: the save comes before the session is set
LocalData_seed ==
  /\ layer = LocalData
  /\ IF Len(users) > 0 \/ Len(posts) > 0
     THEN UNCHANGED <<users, posts, currentUserId, nextId, ls>>
     ELSE LET a == Uid("user", nextId.user + 1)
              b == Uid("user", nextId.user + 2)
          IN /\ users' = <<[id |-> a, username |-> Alice, password |-> "alice", bio |-> "Curious about facts."],
                           [id |-> b, username |-> Bob, password |-> "bob", bio |-> "Sharing daily moments."]>>
             /\ posts' = <<NewPost(Uid("post", nextId.post + 1), a, <<"image">>,
                                   <<"W">>, now - 2),
                           NewPost(Uid("post", nextId.post + 2), b, <<"image">>,
                                   <<"S">>, now - 1)>>
             /\ ls' = Items(users', posts', currentUserId)
             /\ currentUserId' = a
             /\ nextId' = [nextId EXCEPT !.user = @ + 2, !.post = @ + 2]
  /\ Journal(Call("seed", LocalData_currentUser, TRUE, <<>>))
  /\ UNCHANGED <<storage, cache, channel>>
  /\ UNCHANGED <<profiles, backendVars, now>>


\* ------------------------------------------------------------- createLocalLayer
\* state.currentUser?.id||'user_local'
LocalLayer_author == IF currentUserId # Null THEN currentUserId ELSE "user_local"

\* the identifiers with an '@' past their first character
Emails == {"alice@x.io", "bob@x.io", "carol@x.io"}

\* identifier && identifier.indexOf('@')>0 ? identifier : undefined
LocalLayer_email(identifier) ==
  IF identifier \in Emails THEN identifier ELSE Null

LocalLayer_signIn(identifier) ==
  /\ layer = LocalLayer
  /\ LET id == IF identifier # "" THEN identifier ELSE "user_local"
     IN /\ currentUserId' = id
        /\ profiles' = IF \E pr \in profiles : pr.id = id THEN profiles
                       ELSE profiles \cup {[id |-> id, username |-> id, bio |-> "",
                                            email |-> LocalLayer_email(identifier)]}
        /\ Record(Call("signIn", currentUserId, TRUE, [identifier |-> identifier]))
  /\ UNCHANGED <<users, posts, backendVars, now, nextId>>

\* state.profiles.set(id, ...): no check that the id or the username is taken
LocalLayer_signUp(email, username, bio) ==
  /\ layer = LocalLayer
  /\ LET id == IF username # "" THEN username ELSE IF email # "" THEN email ELSE "user_local"
     IN /\ currentUserId' = id
        /\ profiles' = {pr \in profiles : pr.id # id} \cup
                         {[id |-> id, username |-> id, bio |-> bio, email |-> email]}
        /\ Record(Call("signUp", currentUserId, TRUE,
                       [username |-> username, email |-> email]))
  /\ UNCHANGED <<users, posts, backendVars, now, nextId>>

LocalLayer_signOut ==
  /\ layer = LocalLayer
  /\ currentUserId' = Null
  /\ Record(Call("signOut", currentUserId, TRUE, <<>>))
  /\ UNCHANGED <<users, posts, profiles, backendVars, now, nextId>>

LocalLayer_listPosts == posts

LocalLayer_createPost(fileTypes, caption, dt) ==
  /\ layer = LocalLayer
  /\ nextId.post < MaxPosts
  /\ now' = now + dt
  /\ nextId' = [nextId EXCEPT !.post = @ + 1]
  /\ posts' = <<NewPost(Uid("p", nextId.post + 1), LocalLayer_author,
                        MapSeq(fileTypes, MediaType), caption, now')>> \o posts
  /\ Record(Call("createPost", currentUserId, TRUE, [caption |-> caption]))
  /\ UNCHANGED <<users, currentUserId, profiles, backendVars>>

LocalLayer_addComment(postId, content, dt) ==
  /\ layer = LocalLayer
  /\ nextId.c < MaxComments
  /\ now' = now + dt
  /\ nextId' = [nextId EXCEPT !.c = @ + 1]
  /\ posts' = MapSeq(posts, LAMBDA p :
                IF p.id = postId
                THEN [p EXCEPT !.comments = Append(@,
                        NewComment(Uid("c", nextId.c + 1), LocalLayer_author, content, now'))]
                ELSE p)
  /\ Record(Call("addComment", currentUserId, TRUE,
                 [postId |-> postId, content |-> content]))
  /\ UNCHANGED <<users, currentUserId, profiles, backendVars>>

\* no ownership test: the post with this id is updated whoever calls
LocalLayer_updatePost(postId, caption) ==
  /\ layer = LocalLayer
  /\ posts' = MapSeq(posts, LAMBDA p :
                IF p.id = postId THEN [p EXCEPT !.caption = caption, !.edited = TRUE]
                ELSE p)
  /\ Record(Call("updatePost", currentUserId, TRUE,
                 [postId |-> postId, caption |-> caption]))
  /\ UNCHANGED <<users, currentUserId, profiles, backendVars, now, nextId>>

LocalLayer_addReply(postId, commentId, content, dt) ==
  /\ layer = LocalLayer
  /\ nextId.c < MaxComments
  /\ now' = now + dt
  /\ nextId' = [nextId EXCEPT !.c = @ + 1]
  /\ posts' = MapSeq(posts, LAMBDA p :
                IF p.id # postId THEN p
                ELSE [p EXCEPT !.comments = MapSeq(@, LAMBDA cm :
                        IF cm.id = commentId
                        THEN [cm EXCEPT !.replies = Append(@,
                                NewComment(Uid("rc", nextId.c + 1), LocalLayer_author,
                                           content, now'))]
                        ELSE cm)])
  /\ Record(Call("addReply", currentUserId, TRUE,
                 [postId |-> postId, commentId |-> commentId, content |-> content]))
  /\ UNCHANGED <<users, currentUserId, profiles, backendVars>>

\* no ownership test either
LocalLayer_deletePost(postId) ==
  /\ layer = LocalLayer
  /\ posts' = SelectSeq(posts, LAMBDA p : p.id # postId)
  /\ Record(Call("deletePost", currentUserId, TRUE, [postId |-> postId]))
  /\ UNCHANGED <<users, currentUserId, profiles, backendVars, now, nextId>>

\* async toggleReactPost(){}
LocalLayer_toggleReactPost(postId, type) ==
  /\ layer = LocalLayer
  /\ RecordToggle(Call("toggleReactPost", currentUserId, TRUE,
                       [postId |-> postId, type |-> type]),
                  UNION {p.likesUp : p \in {q \in SeqToSet(posts) : q.id = postId}})
  /\ Unchanged

\* seed(): replaces state.posts by the two demo posts, whatever it held
LocalLayer_seed ==
  /\ layer = LocalLayer
  /\ nextId.post + 2 <= MaxPosts
  /\ profiles' = {pr \in profiles : pr.id \notin {"alice", "bob"}} \cup
                   {[id |-> "alice", username |-> "alice", bio |-> "", email |-> Null],
                    [id |-> "bob", username |-> "bob", bio |-> "", email |-> Null]}
  /\ posts' = <<NewPost(Uid("p", nextId.post + 1), "alice", <<>>, <<"H">>, now - 1),
                NewPost(Uid("p", nextId.post + 2), "bob", <<>>, <<"S">>, now - 2)>>
  /\ nextId' = [nextId EXCEPT !.post = @ + 2]
  /\ Record(Call("seed", currentUserId, TRUE, <<>>))
  /\ UNCHANGED <<users, currentUserId, backendVars, now>>


\* state.profiles.get(id) || { id, username:id, bio:'' }
LocalLayer_profile(id) ==
  IF \E pr \in profiles : pr.id = id
  THEN CHOOSE pr \in profiles : pr.id = id
  ELSE [id |-> id, username |-> id, bio |-> "", email |-> Null]

LocalLayer_getProfile(id) ==
  /\ layer = LocalLayer
  /\ Record([Call("getProfile", currentUserId, TRUE, [id |-> id]) EXCEPT
               !.result = LocalLayer_profile(id)])
  /\ Unchanged

\* const u = await getUser(): createLocalLayer has no getUser (nor supabase, nor
\* cache) in scope, so the first statement throws a ReferenceError
LocalLayer_updateProfile(username, bio) ==
  /\ layer = LocalLayer
  /\ ThrowsError("updateProfile", currentUserId, [username |-> username, bio |-> bio],
                 "ReferenceError")

\* ------------------------------------------------------------- the hosted backend
\* (an external collaborator; what the data layers rely on, from spec.md 3, 4.1, 6)

\* row-level ownership: caption edits and deletes are the owner's; a reaction
\* write is any signed-in user's
BackendAllows(kind, ownerId, uid) ==
  IF kind = "react" THEN uid # Null ELSE uid # Null /\ ownerId = uid

\* the uniqueness constraint on profiles.username
UsernameConflict(id, username) ==
  \E pr \in profiles : pr.username = username /\ pr.id # id

\* a row of table posts; media_urls names one storage object per media type
PostRow(id, userId, media, caption, createdAt) ==
  [id |-> id, user_id |-> userId, media_types |-> media,
   media_urls |-> [i \in 1..Len(media) |-> Path(userId, createdAt, i - 1)],
   caption |-> caption,
   created_at |-> createdAt, likes_up |-> {}, likes_down |-> {}, edited |-> FALSE]

\* a row of table comments (parent_id is Null when absent) or of table replies
CommentRow(id, postId, parentId, userId, content, createdAt) ==
  [id |-> id, post_id |-> postId, parent_id |-> parentId, user_id |-> userId,
   content |-> content, created_at |-> createdAt, likes_up |-> {}, likes_down |-> {},
   edited |-> FALSE]

RowIds(rows) == {rows[i].id : i \in 1..Len(rows)}

RowById(rows, id) == rows[CHOOSE i \in 1..Len(rows) : rows[i].id = id]

\* the rows of a table, latest insert first
RECURSIVE Reverse(_)
Reverse(s) == IF s = <<>> THEN <<>> ELSE Reverse(Tail(s)) \o <<Head(s)>>

\* rows put in descending created_at order, rows of one timestamp kept in the
\* order given
RECURSIVE OrderByCreatedAt(_)
OrderByCreatedAt(rows) ==
  IF rows = <<>> THEN <<>>
  ELSE LET rest == OrderByCreatedAt(Tail(rows))
           k == Cardinality({i \in 1..Len(rest) : rest[i].created_at > Head(rows).created_at})
       IN SubSeq(rest, 1, k) \o <<Head(rows)>> \o SubSeq(rest, k + 1, Len(rest))

\* select('*').order('created_at', { ascending:false })
NewestFirst(rows) == OrderByCreatedAt(Reverse(rows))

\* read-modify-write of likes_up / likes_down on one row
ToggleRow(row, id, type) ==
  LET t == ToggleSets(row.likes_up, row.likes_down, id, type)
  IN [row EXCEPT !.likes_up = t.up, !.likes_down = t.down]

\* ------------------------------------------------------------- createSupabaseLayer
\* getUser(): the session's user id
SupabaseLayer_getUser == session

SupabaseLayer_signIn(identifier, password) ==
  /\ layer = SupabaseLayer
  /\ LET isEmail == identifier \in Emails
         rows == {pr \in profiles : pr.username = identifier}
         email == IF isEmail THEN identifier
                  ELSE IF Cardinality(rows) = 1 THEN (CHOOSE pr \in rows : TRUE).email
                  ELSE Null
         acct == {a \in accounts : a.email = email /\ a.password = password}
         args == [identifier |-> identifier, password |-> password]
     IN IF email = Null
        THEN ThrowsError("signIn", session, args, UsernameNotFound)
        ELSE IF acct = {}
        THEN ThrowsError("signIn", session, args, InvalidLogin)
        ELSE /\ session' = (CHOOSE a \in acct : TRUE).id
             /\ Record(Call("signIn", session, TRUE, args))
             /\ UNCHANGED <<localVars, profiles, accounts, postRows, commentRows,
                            replyRows, now, nextId>>

\* auth.signUp creates the account (and signs it in) before the profile upsert
SupabaseLayer_signUp(email, password, username, bio) ==
  /\ layer = SupabaseLayer
  /\ LET id == Uid("u", nextId.user + 1)
         args == [email |-> email, username |-> username]
     IN IF \E a \in accounts : a.email = email
        THEN Throws("signUp", session, args)
        ELSE /\ nextId.user < MaxUsers
             /\ nextId' = [nextId EXCEPT !.user = @ + 1]
             /\ accounts' = accounts \cup {[id |-> id, email |-> email, password |-> password]}
             /\ session' = id
             /\ IF username = ""
                THEN UNCHANGED profiles /\ Record(Call("signUp", session, TRUE, args))
                ELSE IF UsernameConflict(id, username)
                THEN UNCHANGED profiles /\ Record(Call("signUp", session, FALSE, args))
                ELSE /\ profiles' = {pr \in profiles : pr.id # id} \cup
                                      {[id |-> id, username |-> username, bio |-> bio,
                                        email |-> email]}
                     /\ Record(Call("signUp", session, TRUE, args))
             /\ UNCHANGED <<localVars, postRows, commentRows, replyRows, now>>

SupabaseLayer_signOut ==
  /\ layer = SupabaseLayer
  /\ session' = Null
  /\ Record(Call("signOut", session, TRUE, <<>>))
  /\ UNCHANGED <<localVars, profiles, accounts, postRows, commentRows, replyRows,
                 now, nextId>>

\* data of a lookup that found no row (null)
NoProfile == [id |-> Null, username |-> Null, bio |-> Null, email |-> Null]

\* the row of table profiles with that id, null when there is none (maybeSingle)
ProfileRow(id) ==
  IF \E pr \in profiles : pr.id = id THEN CHOOSE pr \in profiles : pr.id = id
  ELSE NoProfile

\* if (cache.has(id)) return cache.get(id); ...; if (data) cache.set(id, data)
SupabaseLayer_getProfile(id) ==
  /\ layer = SupabaseLayer
  /\ LET hit == {pr \in cache : pr.id = id}
         data == IF hit # {} THEN CHOOSE pr \in hit : TRUE ELSE ProfileRow(id)
     IN /\ cache' = IF hit = {} /\ data # NoProfile THEN cache \cup {data} ELSE cache
        /\ Log([Call("getProfile", session, TRUE, [id |-> id]) EXCEPT !.result = data])
        /\ UNCHANGED <<storage, channel>>
  /\ Unchanged

\* variant: the cache entry survives the update
SupabaseLayer_updateProfile_keepCache(username, bio) ==
  /\ layer = SupabaseLayer
  /\ LET u == SupabaseLayer_getUser
         args == [username |-> username, bio |-> bio]
         acct == CHOOSE a \in accounts : a.id = u
     IN IF u = Null
        THEN ThrowsError("updateProfile", u, args, LoginRequired)
        ELSE IF UsernameConflict(u, username)
        THEN ThrowsError("updateProfile", u, args, BackendError)
        ELSE /\ profiles' = {pr \in profiles : pr.id # u} \cup
                              {[id |-> u, username |-> username, bio |-> bio,
                                email |-> acct.email]}
             /\ Log(Call("updateProfile", u, TRUE, args))
             /\ UNCHANGED <<cache, storage, channel>>
             /\ UNCHANGED <<localVars, accounts, session, postRows, commentRows,
                            replyRows, now, nextId>>

\* upsert({ id: u.id, username, bio, email: u.email }); cache.delete(u.id)
SupabaseLayer_updateProfile(username, bio) ==
  /\ layer = SupabaseLayer
  /\ LET u == SupabaseLayer_getUser
         args == [username |-> username, bio |-> bio]
         acct == CHOOSE a \in accounts : a.id = u
     IN IF u = Null
        THEN ThrowsError("updateProfile", u, args, LoginRequired)
        ELSE IF UsernameConflict(u, username)
        THEN ThrowsError("updateProfile", u, args, BackendError)
        ELSE /\ profiles' = {pr \in profiles : pr.id # u} \cup
                              {[id |-> u, username |-> username, bio |-> bio,
                                email |-> acct.email]}
             /\ cache' = {pr \in cache : pr.id # u}
             /\ Log(Call("updateProfile", u, TRUE, args))
             /\ UNCHANGED <<storage, channel>>
             /\ UNCHANGED <<localVars, accounts, session, postRows, commentRows,
                            replyRows, now, nextId>>


\* the objects the bucket holds at most
MaxObjects == 5
\* the latest reading of the clock
MaxClock == 9

UploadFailed == "upload failed"

\* the files of the list that are uploaded: if (!file) continue
Present(files) == SelectSeq(files, LAMBDA f : f # Null)

\* variant: a failed upload removes the files uploaded before it
SupabaseLayer_createPost_cleanup(files, caption, dt, failAt) ==
  /\ layer = SupabaseLayer
  /\ LET u == SupabaseLayer_getUser
         args == [caption |-> caption, files |-> files, failAt |-> failAt]
         real == Present(files)
         done == IF failAt = 0 THEN Len(real) ELSE 0
         urls == [i \in 1..done |-> Path(u, now + dt, i - 1)]
         types == [i \in 1..done |-> MediaType(real[i])]
     IN IF u = Null
        THEN ThrowsError("createPost", u, args, LoginRequired)
        ELSE /\ failAt <= Len(real)
             /\ Len(storage) + done <= MaxObjects
             /\ now + dt <= MaxClock
             /\ now' = now + dt
             /\ storage' = storage \o [i \in 1..done |-> Object(urls[i], types[i])]
             /\ IF failAt # 0
                THEN /\ Log([Call("createPost", u, FALSE, args) EXCEPT !.error = UploadFailed])
                     /\ UNCHANGED <<postRows, nextId>>
                ELSE /\ nextId.post < MaxPosts
                     /\ nextId' = [nextId EXCEPT !.post = @ + 1]
                     /\ postRows' = Append(postRows,
                           [PostRow(Uid("p", nextId.post + 1), u, types, caption, now')
                              EXCEPT !.media_urls = urls])
                     /\ Log(Call("createPost", u, TRUE, args))
             /\ UNCHANGED <<cache, channel>>
             /\ UNCHANGED <<localVars, profiles, accounts, session, commentRows, replyRows>>

\* for (const file of files) { upload; if (upErr) throw upErr; push url, type }
\* then insert({ caption, media_urls, media_types }); the row's user_id is the
\* backend's default, the session user.  failAt is the upload the bucket
\* rejects (0: none); the uploads before it stay in the bucket.
SupabaseLayer_createPost(files, caption, dt, failAt) ==
  /\ layer = SupabaseLayer
  /\ LET u == SupabaseLayer_getUser
         args == [caption |-> caption, files |-> files, failAt |-> failAt]
         real == Present(files)
         done == IF failAt = 0 THEN Len(real) ELSE failAt - 1
         urls == [i \in 1..done |-> Path(u, now + dt, i - 1)]
         types == [i \in 1..done |-> MediaType(real[i])]
     IN IF u = Null
        THEN ThrowsError("createPost", u, args, LoginRequired)
        ELSE /\ failAt <= Len(real)
             /\ Len(storage) + done <= MaxObjects
             /\ now + dt <= MaxClock
             /\ now' = now + dt
             /\ storage' = storage \o [i \in 1..done |-> Object(urls[i], types[i])]
             /\ IF failAt # 0
                THEN /\ Log([Call("createPost", u, FALSE, args) EXCEPT !.error = UploadFailed])
                     /\ UNCHANGED <<postRows, nextId>>
                ELSE /\ nextId.post < MaxPosts
                     /\ nextId' = [nextId EXCEPT !.post = @ + 1]
                     /\ postRows' = Append(postRows,
                           [PostRow(Uid("p", nextId.post + 1), u, types, caption, now')
                              EXCEPT !.media_urls = urls])
                     /\ Log(Call("createPost", u, TRUE, args))
             /\ UNCHANGED <<cache, channel>>
             /\ UNCHANGED <<localVars, profiles, accounts, session, commentRows, replyRows>>

SupabaseLayer_addComment(postId, content, dt) ==
  /\ layer = SupabaseLayer
  /\ LET u == SupabaseLayer_getUser
         args == [postId |-> postId, content |-> content]
     IN IF u = Null \/ postId \notin RowIds(postRows)
        THEN ThrowsError("addComment", u, args,
                         IF u = Null THEN LoginRequired ELSE BackendError)
        ELSE /\ nextId.c < MaxComments
             /\ now' = now + dt
             /\ nextId' = [nextId EXCEPT !.c = @ + 1]
             /\ commentRows' = Append(commentRows,
                   CommentRow(Uid("c", nextId.c + 1), postId, Null, u, content, now'))
             /\ Record(Call("addComment", u, TRUE, args))
             /\ UNCHANGED <<localVars, profiles, accounts, session, postRows, replyRows>>

\* insert with parent_id and the prefix; if the backend refuses it (no such
\* column), insert the prefix alone
SupabaseLayer_addReply(postId, commentId, content, dt) ==
  /\ layer = SupabaseLayer
  /\ LET u == SupabaseLayer_getUser
         args == [postId |-> postId, commentId |-> commentId, content |-> content]
     IN IF u = Null \/ postId \notin RowIds(postRows)
        THEN ThrowsError("addReply", u, args,
                         IF u = Null THEN LoginRequired ELSE BackendError)
        ELSE /\ nextId.c < MaxComments
             /\ now' = now + dt
             /\ nextId' = [nextId EXCEPT !.c = @ + 1]
             /\ commentRows' = Append(commentRows,
                   CommentRow(Uid("c", nextId.c + 1), postId,
                              IF parentColumn THEN commentId ELSE Null,
                              u, EncodeReply(commentId, content), now'))
             /\ Record(Call("addReply", u, TRUE, args))
             /\ UNCHANGED <<localVars, profiles, accounts, session, postRows, replyRows>>

\* update({ caption, edited:true }).eq('id', postId): ownership is the backend's
SupabaseLayer_updatePost(postId, caption) ==
  /\ layer = SupabaseLayer
  /\ postRows' = MapSeq(postRows, LAMBDA r :
                   IF r.id = postId /\ BackendAllows("update", r.user_id, session)
                   THEN [r EXCEPT !.caption = caption, !.edited = TRUE] ELSE r)
  /\ Record(Call("updatePost", session, TRUE, [postId |-> postId, caption |-> caption]))
  /\ UNCHANGED <<localVars, profiles, accounts, session, commentRows, replyRows,
                 now, nextId>>

\* delete().eq('id', postId); the backend cascades to the post's comments
SupabaseLayer_deletePost(postId) ==
  /\ layer = SupabaseLayer
  /\ LET gone == {r.id : r \in {q \in SeqToSet(postRows) :
                      q.id = postId /\ BackendAllows("delete", q.user_id, session)}}
     IN /\ postRows' = SelectSeq(postRows, LAMBDA r : r.id \notin gone)
        /\ commentRows' = SelectSeq(commentRows, LAMBDA r : r.post_id \notin gone)
  /\ Record(Call("deletePost", session, TRUE, [postId |-> postId]))
  /\ UNCHANGED <<localVars, profiles, accounts, session, replyRows, now, nextId>>

\* select likes (throws when the post is missing), getUser, update likes
SupabaseLayer_toggleReactPost(postId, type) ==
  /\ layer = SupabaseLayer
  /\ LET u == SupabaseLayer_getUser
         args == [postId |-> postId, type |-> type]
         found == postId \in RowIds(postRows)
     IN /\ IF found /\ u # Null
           THEN postRows' = MapSeq(postRows, LAMBDA r :
                   IF r.id = postId /\ BackendAllows("react", r.user_id, u)
                   THEN ToggleRow(r, u, type) ELSE r)
           ELSE UNCHANGED postRows
        /\ RecordToggle(Call("toggleReactPost", u, found, args),
                        IF found THEN RowById(postRows, postId).likes_up ELSE {})
  /\ UNCHANGED <<localVars, profiles, accounts, session, commentRows, replyRows,
                 now, nextId>>


\* variant: only the parent_id column names the parent
SupabaseLayer_node_columnOnly(row) ==
  [id |-> row.id, userId |-> row.user_id, content |-> StripReplyPrefix(row.content),
   createdAt |-> row.created_at, replies |-> <<>>, likesUp |-> row.likes_up,
   likesDown |-> row.likes_down, edited |-> row.edited, postId |-> row.post_id,
   parentId |-> row.parent_id]

\* one fetched comment row as a node of the tree (the first forEach of listPosts)
SupabaseLayer_node(row) ==
  [id |-> row.id, userId |-> row.user_id, content |-> StripReplyPrefix(row.content),
   createdAt |-> row.created_at, replies |-> <<>>, likesUp |-> row.likes_up,
   likesDown |-> row.likes_down, edited |-> row.edited, postId |-> row.post_id,
   parentId |-> IF row.parent_id # Null THEN row.parent_id ELSE ReplyMatch(row.content)]

\* byId.forEach: each node, in arrival order, is pushed to its parent's replies
\* when byId has the parent, else to its post's list
RECURSIVE SupabaseLayer_attach(_, _, _)
SupabaseLayer_attach(nodes, i, acc) ==
  IF i > Len(nodes) THEN acc
  ELSE LET c == nodes[i]
       IN IF c.parentId # Null /\ c.parentId \in DOMAIN acc.replies
          THEN SupabaseLayer_attach(nodes, i + 1,
                 [acc EXCEPT !.replies[c.parentId] = Append(@, c.id)])
          ELSE SupabaseLayer_attach(nodes, i + 1,
                 [acc EXCEPT !.byPost[c.postId] = Append(@, c.id)])

\* what listPosts builds from the fetched posts and the fetched comment rows:
\* the nodes, each node's replies and each post's top-level list (as ids, since
\* a node may be its own descendant), and the order the rows arrived in
SupabaseLayer_build(postList, fetched) ==
  LET nodes == MapSeq(fetched, SupabaseLayer_node)
      ids == RowIds(fetched)
      acc == SupabaseLayer_attach(nodes, 1,
               [replies |-> [k \in ids |-> <<>>],
                byPost |-> [p \in RowIds(postList) \cup {nodes[i].postId : i \in 1..Len(nodes)}
                              |-> <<>>]])
  IN [posts |-> postList,
      node |-> [k \in ids |-> nodes[CHOOSE i \in 1..Len(nodes) : nodes[i].id = k]],
      replies |-> acc.replies,
      byPost |-> acc.byPost,
      arrival |-> MapSeq(fetched, LAMBDA r : r.id)]

\* the comment rows listPosts asks for: .in('post_id', postIds)
SupabaseLayer_wanted == SelectSeq(commentRows, LAMBDA r : r.post_id \in RowIds(postRows))

\* a node with its replies nested (defined when no node is its own descendant)
RECURSIVE Nested(_, _)
Nested(g, id) == [g.node[id] EXCEPT !.replies = MapSeq(g.replies[id], LAMBDA k : Nested(g, k))]

\* posts.map(p => ({ ..., comments: byPost.get(p.id)||[] }))
SupabaseLayer_posts(g) ==
  MapSeq(g.posts, LAMBDA p :
    [id |-> p.id, userId |-> p.user_id, media |-> p.media_types, caption |-> p.caption,
     createdAt |-> p.created_at,
     comments |-> MapSeq(g.byPost[p.id], LAMBDA k : Nested(g, k)),
     likesUp |-> p.likes_up, likesDown |-> p.likes_down, edited |-> p.edited])

\* listPosts with the rows arriving in stored order (created_at ascending)
SupabaseLayer_listPosts ==
  SupabaseLayer_posts(SupabaseLayer_build(NewestFirst(postRows), SupabaseLayer_wanted))

\* orders of `rows` that are ascending in created_at: rows of equal created_at
\* may arrive either way round
ArrivalOrders(rows) ==
  {f \in [1..Len(rows) -> 1..Len(rows)] :
     /\ \A i, j \in 1..Len(rows) : i # j => f[i] # f[j]
     /\ \A i, j \in 1..Len(rows) : i < j => rows[f[i]].created_at <= rows[f[j]].created_at}

\* listPosts as a step: the rows arrive in some created_at order and the tree
\* is built from them
SupabaseLayer_listPostsCall ==
  /\ layer = SupabaseLayer
  /\ \E f \in ArrivalOrders(SupabaseLayer_wanted) :
       view' = IF postRows = <<>> THEN [posts |-> <<>>, node |-> <<>>, replies |-> <<>>,
                                         byPost |-> <<>>, arrival |-> <<>>]
               ELSE SupabaseLayer_build(NewestFirst(postRows),
                      [i \in 1..Len(SupabaseLayer_wanted) |-> SupabaseLayer_wanted[f[i]]])
  /\ last' = Call("listPosts", session, TRUE, <<>>)
  /\ UNCHANGED <<layer, parentColumn, storage, cache, channel, env, mounts, ls, calls,
                 rendered>>
  /\ Unchanged

\* supabase.channel('realtime:instafacts').on(posts).on(comments).subscribe()
SupabaseLayer_subscribe ==
  /\ layer = SupabaseLayer
  /\ channel = {}
  /\ channel' = {"posts", "comments"}
  /\ Log(Call("subscribe", session, TRUE, <<>>))
  /\ UNCHANGED <<storage, cache>>
  /\ Unchanged

\* the function subscribe returned: supabase.removeChannel(ch)
SupabaseLayer_unsubscribe ==
  /\ layer = SupabaseLayer
  /\ channel # {}
  /\ channel' = {}
  /\ Log(Call("unsubscribe", session, TRUE, <<>>))
  /\ UNCHANGED <<storage, cache>>
  /\ Unchanged

\* ------------------------------------------------------------- createSupabaseDataLayer
\* a row of table replies
ReplyRow(id, commentId, userId, content, createdAt) ==
  [id |-> id, comment_id |-> commentId, user_id |-> userId, content |-> content,
   created_at |-> createdAt, likes_up |-> {}, likes_down |-> {}, edited |-> FALSE]

\* the account's e-mail is `${username.trim()}+instafacts@example.com`
SupabaseData_signUp(username, password, bio) ==
  /\ layer = SupabaseData
  /\ LET email == Trim(username)
         id == Uid("u", nextId.user + 1)
         args == [username |-> username, password |-> password]
     IN IF \E a \in accounts : a.email = email
        THEN Throws("signUp", session, args)
        ELSE /\ nextId.user < MaxUsers
             /\ nextId' = [nextId EXCEPT !.user = @ + 1]
             /\ accounts' = accounts \cup {[id |-> id, email |-> email, password |-> password]}
             /\ session' = id
             /\ Record(Call("signUp", session, TRUE, args))
             /\ UNCHANGED <<localVars, profiles, postRows, commentRows, replyRows, now>>

SupabaseData_signIn(username, password) ==
  /\ layer = SupabaseData
  /\ LET acct == {a \in accounts : a.email = Trim(username) /\ a.password = password}
         args == [username |-> username, password |-> password]
     IN IF acct = {}
        THEN ThrowsError("signIn", session, args, InvalidLogin)
        ELSE /\ session' = (CHOOSE a \in acct : TRUE).id
             /\ Record(Call("signIn", session, TRUE, args))
             /\ UNCHANGED <<localVars, profiles, accounts, postRows, commentRows,
                            replyRows, now, nextId>>

SupabaseData_signOut ==
  /\ layer = SupabaseData
  /\ session' = Null
  /\ Record(Call("signOut", session, TRUE, <<>>))
  /\ UNCHANGED <<localVars, profiles, accounts, postRows, commentRows, replyRows,
                 now, nextId>>

\* mapPostFromDB: comments is always []
mapPostFromDB(row) ==
  [id |-> row.id, userId |-> row.user_id, media |-> row.media_types,
   caption |-> row.caption, createdAt |-> row.created_at, comments |-> <<>>,
   likesUp |-> row.likes_up, likesDown |-> row.likes_down, edited |-> row.edited]

SupabaseData_listPosts == MapSeq(NewestFirst(postRows), mapPostFromDB)

\* upload(path, file); if (upErr) throw upErr; then
\* insert({ user_id, media_type, media_url, caption: caption.trim() })
SupabaseData_createPost(fileType, caption, dt, uploads) ==
  /\ layer = SupabaseData
  /\ LET args == [caption |-> caption, files |-> <<fileType>>,
                  failAt |-> IF uploads THEN 0 ELSE 1]
     IN IF session = Null
        THEN ThrowsError("createPost", session, args, LoginRequired)
        ELSE /\ now + dt <= MaxClock
             /\ now' = now + dt
             /\ IF ~uploads
                THEN /\ Log([Call("createPost", session, FALSE, args) EXCEPT
                               !.error = UploadFailed])
                     /\ UNCHANGED <<postRows, nextId, storage>>
                ELSE /\ nextId.post < MaxPosts
                     /\ Len(storage) < MaxObjects
                     /\ nextId' = [nextId EXCEPT !.post = @ + 1]
                     /\ storage' = Append(storage,
                                          Object(Path(session, now', 0), MediaType(fileType)))
                     /\ postRows' = Append(postRows,
                           PostRow(Uid("p", nextId.post + 1), session,
                                   <<MediaType(fileType)>>, Trim(caption), now'))
                     /\ Log(Call("createPost", session, TRUE, args))
             /\ UNCHANGED <<cache, channel>>
             /\ UNCHANGED <<localVars, profiles, accounts, session, commentRows, replyRows>>

\* update({ caption: caption.trim(), edited: true }).eq('id').eq('user_id')
SupabaseData_updatePost(postId, caption) ==
  /\ layer = SupabaseData
  /\ postRows' = IF session = Null THEN postRows
                 ELSE MapSeq(postRows, LAMBDA r :
                        IF r.id = postId /\ r.user_id = session
                        THEN [r EXCEPT !.caption = Trim(caption), !.edited = TRUE] ELSE r)
  /\ Record(Call("updatePost", session, TRUE, [postId |-> postId, caption |-> caption]))
  /\ UNCHANGED <<localVars, profiles, accounts, session, commentRows, replyRows,
                 now, nextId>>

\* delete().eq('id').eq('user_id'); the backend cascades to the post's
\* comments and to their replies
SupabaseData_deletePost(postId) ==
  /\ layer = SupabaseData
  /\ LET gone == IF session = Null THEN {}
                 ELSE {r.id : r \in {q \in SeqToSet(postRows) :
                                       q.id = postId /\ q.user_id = session}}
         goneComments == {r.id : r \in {q \in SeqToSet(commentRows) : q.post_id \in gone}}
     IN /\ postRows' = SelectSeq(postRows, LAMBDA r : r.id \notin gone)
        /\ commentRows' = SelectSeq(commentRows, LAMBDA r : r.post_id \notin gone)
        /\ replyRows' = SelectSeq(replyRows, LAMBDA r : r.comment_id \notin goneComments)
  /\ Record(Call("deletePost", session, TRUE, [postId |-> postId]))
  /\ UNCHANGED <<localVars, profiles, accounts, session, now, nextId>>

SupabaseData_addComment(postId, content, dt) ==
  /\ layer = SupabaseData
  /\ LET args == [postId |-> postId, content |-> content]
     IN IF session = Null \/ postId \notin RowIds(postRows)
        THEN ThrowsError("addComment", session, args,
                         IF session = Null THEN LoginRequired ELSE BackendError)
        ELSE /\ nextId.c < MaxComments
             /\ now' = now + dt
             /\ nextId' = [nextId EXCEPT !.c = @ + 1]
             /\ commentRows' = Append(commentRows,
                   CommentRow(Uid("c", nextId.c + 1), postId, Null, session,
                              Trim(content), now'))
             /\ Record(Call("addComment", session, TRUE, args))
             /\ UNCHANGED <<localVars, profiles, accounts, session, postRows, replyRows>>

\* from('replies').insert({ comment_id, user_id, content })
SupabaseData_addReply(postId, commentId, content, dt) ==
  /\ layer = SupabaseData
  /\ LET args == [postId |-> postId, commentId |-> commentId, content |-> content]
     IN IF session = Null \/ commentId \notin RowIds(commentRows)
        THEN ThrowsError("addReply", session, args,
                         IF session = Null THEN LoginRequired ELSE BackendError)
        ELSE /\ nextId.c < MaxComments
             /\ now' = now + dt
             /\ nextId' = [nextId EXCEPT !.c = @ + 1]
             /\ replyRows' = Append(replyRows,
                   ReplyRow(Uid("r", nextId.c + 1), commentId, session, Trim(content), now'))
             /\ Record(Call("addReply", session, TRUE, args))
             /\ UNCHANGED <<localVars, profiles, accounts, session, postRows, commentRows>>

SupabaseData_toggleReactPost(postId, type) ==
  /\ layer = SupabaseData
  /\ LET args == [postId |-> postId, type |-> type]
         found == postId \in RowIds(postRows)
     IN /\ IF found /\ session # Null
           THEN postRows' = MapSeq(postRows, LAMBDA r :
                   IF r.id = postId /\ BackendAllows("react", r.user_id, session)
                   THEN ToggleRow(r, session, type) ELSE r)
           ELSE UNCHANGED postRows
        /\ RecordToggle(Call("toggleReactPost", session, found \/ session = Null, args),
                        IF found THEN RowById(postRows, postId).likes_up ELSE {})
  /\ UNCHANGED <<localVars, profiles, accounts, session, commentRows, replyRows,
                 now, nextId>>

\* without replyId the comments row, with it the replies row
SupabaseData_toggleReactComment(postId, commentId, replyId, type) ==
  /\ layer = SupabaseData
  /\ LET args == [postId |-> postId, commentId |-> commentId, replyId |-> replyId,
                  type |-> type]
     IN IF session = Null
        THEN Record(Call("toggleReactComment", session, TRUE, args)) /\ Unchanged
        ELSE IF replyId = Null
        THEN IF commentId \notin RowIds(commentRows)
             THEN Throws("toggleReactComment", session, args)
             ELSE /\ commentRows' = MapSeq(commentRows, LAMBDA r :
                        IF r.id = commentId /\ BackendAllows("react", r.user_id, session)
                        THEN ToggleRow(r, session, type) ELSE r)
                  /\ Record(Call("toggleReactComment", session, TRUE, args))
                  /\ UNCHANGED <<localVars, profiles, accounts, session, postRows,
                                 replyRows, now, nextId>>
        ELSE IF replyId \notin RowIds(replyRows)
             THEN Throws("toggleReactComment", session, args)
             ELSE /\ replyRows' = MapSeq(replyRows, LAMBDA r :
                        IF r.id = replyId /\ BackendAllows("react", r.user_id, session)
                        THEN ToggleRow(r, session, type) ELSE r)
                  /\ Record(Call("toggleReactComment", session, TRUE, args))
                  /\ UNCHANGED <<localVars, profiles, accounts, session, postRows,
                                 commentRows, now, nextId>>

\* update({ content: content.trim(), edited:true }).eq('id', ...).eq('user_id',
\* currentUser.id) on comments, or on replies when a replyId is given
SupabaseData_editComment(postId, commentId, replyId, content) ==
  /\ layer = SupabaseData
  /\ LET args == [postId |-> postId, commentId |-> commentId, replyId |-> replyId,
                  content |-> content]
         edit(r) == [r EXCEPT !.content = Trim(content), !.edited = TRUE]
     IN /\ IF session = Null
           THEN UNCHANGED <<commentRows, replyRows>>
           ELSE IF replyId = Null
           THEN /\ commentRows' = MapSeq(commentRows, LAMBDA r :
                      IF r.id = commentId /\ r.user_id = session THEN edit(r) ELSE r)
                /\ UNCHANGED replyRows
           ELSE /\ replyRows' = MapSeq(replyRows, LAMBDA r :
                      IF r.id = replyId /\ r.user_id = session THEN edit(r) ELSE r)
                /\ UNCHANGED commentRows
        /\ Record(Call("editComment", session, TRUE, args))
        /\ UNCHANGED <<localVars, profiles, accounts, session, postRows, now, nextId>>

\* delete().eq('id', ...).eq('user_id', currentUser.id) on comments, or on
\* replies when a replyId is given
SupabaseData_deleteComment(postId, commentId, replyId) ==
  /\ layer = SupabaseData
  /\ LET args == [postId |-> postId, commentId |-> commentId, replyId |-> replyId]
     IN /\ IF session = Null
           THEN UNCHANGED <<commentRows, replyRows>>
           ELSE IF replyId = Null
           THEN /\ commentRows' = SelectSeq(commentRows, LAMBDA r :
                      ~(r.id = commentId /\ r.user_id = session))
                /\ UNCHANGED replyRows
           ELSE /\ replyRows' = SelectSeq(replyRows, LAMBDA r :
                      ~(r.id = replyId /\ r.user_id = session))
                /\ UNCHANGED commentRows
        /\ Record(Call("deleteComment", session, TRUE, args))
        /\ UNCHANGED <<localVars, profiles, accounts, session, postRows, now, nextId>>

\* chan.on(posts).on(comments).on(replies).subscribe()
SupabaseData_subscribe ==
  /\ layer = SupabaseData
  /\ channel = {}
  /\ channel' = {"posts", "comments", "replies"}
  /\ Log(Call("subscribe", session, TRUE, <<>>))
  /\ UNCHANGED <<storage, cache>>
  /\ Unchanged

\* the function subscribe returned: supabase.removeChannel(chan)
SupabaseData_unsubscribe ==
  /\ layer = SupabaseData
  /\ channel # {}
  /\ channel' = {}
  /\ Log(Call("unsubscribe", session, TRUE, <<>>))
  /\ UNCHANGED <<storage, cache>>
  /\ Unchanged

\* ------------------------------------------------------------- the contract
\* listPosts() of the exposed layer
ListPosts ==
  CASE layer = LocalData -> LocalData_listPosts
    [] layer = LocalLayer -> LocalLayer_listPosts
    [] layer = SupabaseLayer -> SupabaseLayer_listPosts
    [] layer = SupabaseData -> SupabaseData_listPosts


\* the listing as it was when the call was made
KeepListed == prev' = NoCall /\ listed' = ListPosts /\ NoComposer

\* ------------------------------------------------------------- stored content
\* The local stores are seeded by the App on mount; a remote layer is
\* constructed against whatever the backend holds.  The feed specifications
\* start from the demo content: alice and bob, one post each.
InitStored ==
  /\ layer \in Layers
  /\ parentColumn \in IF layer = SupabaseLayer THEN BOOLEAN ELSE {FALSE}
  /\ now = 2
  /\ users = IF layer = LocalData
             THEN <<[id |-> "user1", username |-> Alice, password |-> "alice",
                     bio |-> "Curious about facts."],
                    [id |-> "user2", username |-> Bob, password |-> "bob",
                     bio |-> "Sharing daily moments."]>>
             ELSE <<>>
  /\ currentUserId = IF layer = LocalData THEN "user1" ELSE Null
  /\ posts = CASE layer = LocalData ->
                    <<NewPost("post1", "user1", <<"image">>, <<"W">>, 0),
                      NewPost("post2", "user2", <<"image">>, <<"S">>, 1)>>
               [] layer = LocalLayer ->
                    <<NewPost("p1", "alice", <<>>, <<"H">>, 1),
                      NewPost("p2", "bob", <<>>, <<"S">>, 0)>>
               [] OTHER -> <<>>
  /\ profiles = CASE layer = LocalLayer ->
                       {[id |-> "alice", username |-> "alice", bio |-> "", email |-> Null],
                        [id |-> "bob", username |-> "bob", bio |-> "", email |-> Null]}
                  [] layer = SupabaseLayer ->
                       {[id |-> "u1", username |-> "alice", bio |-> "", email |-> "alice@x.io"],
                        [id |-> "u2", username |-> "bob", bio |-> "", email |-> "bob@x.io"]}
                  [] OTHER -> {}
  /\ accounts = CASE layer = SupabaseLayer ->
                       {[id |-> "u1", email |-> "alice@x.io", password |-> "alice"],
                        [id |-> "u2", email |-> "bob@x.io", password |-> "bob"]}
                  [] layer = SupabaseData ->
                       {[id |-> "u1", email |-> Alice, password |-> "alice"],
                        [id |-> "u2", email |-> Bob, password |-> "bob"]}
                  [] OTHER -> {}
  /\ session = Null
  /\ postRows = IF layer \in {SupabaseLayer, SupabaseData}
                THEN <<PostRow("p1", "u1", <<"image">>, <<"H">>, 0),
                       PostRow("p2", "u2", <<"image">>, <<"S">>, 1)>>
                ELSE <<>>
  /\ commentRows = <<>>
  /\ replyRows = <<>>
  /\ nextId = [user |-> 2, post |-> 2, c |-> 0]
  /\ last = NoCall
  /\ prev = NoCall
  /\ listed = <<>>
  /\ view = Null
  /\ InitIdle

\* the same, with a comment of bob's on alice's post and two replies to it
\* (the stores that can react to comments)
InitStoredComments ==
  /\ layer \in {LocalData, SupabaseData}
  /\ parentColumn = FALSE
  /\ now = 5
  /\ users = IF layer = LocalData
             THEN <<[id |-> "user1", username |-> Alice, password |-> "alice",
                     bio |-> "Curious about facts."],
                    [id |-> "user2", username |-> Bob, password |-> "bob",
                     bio |-> "Sharing daily moments."]>>
             ELSE <<>>
  /\ currentUserId = IF layer = LocalData THEN "user1" ELSE Null
  /\ posts = IF layer = LocalData
             THEN <<[NewPost("post1", "user1", <<"image">>, <<"W">>, 0) EXCEPT !.comments =
                      <<[NewComment("c1", "user2", <<"a">>, 3) EXCEPT !.replies =
                          <<NewComment("r2", "user1", <<"a">>, 4),
                            NewComment("r3", "user2", <<"a">>, 5)>>]>>]>>
             ELSE <<>>
  /\ profiles = {}
  /\ accounts = IF layer = SupabaseData
                THEN {[id |-> "u1", email |-> Alice, password |-> "alice"],
                      [id |-> "u2", email |-> Bob, password |-> "bob"]}
                ELSE {}
  /\ session = Null
  /\ postRows = IF layer = SupabaseData
                THEN <<PostRow("p1", "u1", <<"image">>, <<"H">>, 0)>> ELSE <<>>
  /\ commentRows = IF layer = SupabaseData
                   THEN <<CommentRow("c1", "p1", Null, "u2", <<"a">>, 3)>> ELSE <<>>
  /\ replyRows = IF layer = SupabaseData
                 THEN <<ReplyRow("r2", "c1", "u1", <<"a">>, 4),
                        ReplyRow("r3", "c1", "u2", <<"a">>, 5)>>
                 ELSE <<>>
  /\ nextId = [user |-> 2, post |-> 1, c |-> 3]
  /\ last = NoCall
  /\ prev = NoCall
  /\ listed = <<>>
  /\ view = Null
  /\ InitIdle

\* alice or bob signs in, with the demo credentials
SignIn ==
  \E w \in {"alice", "bob"} :
    \/ LocalData_signIn(IF w = "alice" THEN Alice ELSE Bob, w)
    \/ LocalLayer_signIn(w)
    \/ SupabaseLayer_signIn(w \o "@x.io", w)
    \/ SupabaseData_signIn(IF w = "alice" THEN Alice ELSE Bob, w)

SignOut ==
  \/ LocalData_signOut
  \/ LocalLayer_signOut
  \/ SupabaseLayer_signOut
  \/ SupabaseData_signOut

\* ids of the posts, comments and replies the store holds
PostIds == {p.id : p \in SeqToSet(posts)} \cup RowIds(postRows)
CommentIds ==
  UNION {{c.id : c \in SeqToSet(p.comments)} : p \in SeqToSet(posts)} \cup RowIds(commentRows)
ReplyIds ==
  UNION {UNION {{r.id : r \in SeqToSet(c.replies)} : c \in SeqToSet(p.comments)} :
           p \in SeqToSet(posts)} \cup RowIds(replyRows)

ReactTypes == {"up", "down"}

ToggleReactPost ==
  \E p \in PostIds, t \in ReactTypes :
    \/ LocalData_toggleReactPost(p, t)
    \/ LocalLayer_toggleReactPost(p, t)
    \/ SupabaseLayer_toggleReactPost(p, t)
    \/ SupabaseData_toggleReactPost(p, t)

ToggleReactComment ==
  \E p \in PostIds, c \in CommentIds, r \in ReplyIds \cup {Null}, t \in ReactTypes :
    \/ LocalData_toggleReactComment(p, c, r, t)
    \/ SupabaseData_toggleReactComment(p, c, r, t)

\* ------------------------------------------------------------- reactions: C1, C2
NextReact ==
  \/ SignIn /\ NoPrev
  \/ SignOut /\ NoPrev
  \/ ToggleReactPost /\ NoPrev
  \/ ToggleReactComment /\ NoPrev

\* sign-in, sign-out and reaction toggles on stored posts, comments and replies
SpecReact == (InitStored \/ InitStoredComments) /\ [][NextReact]_vars

NextTwice ==
  \/ SignIn /\ KeepPrev
  \/ SignOut /\ KeepPrev
  \/ ToggleReactPost /\ KeepPrev

\* sign-in, sign-out and post reaction toggles, remembering the call before
SpecTwice == InitStored /\ [][NextTwice]_vars

Disjoint(up, down) == up \cap down = {}

\* C1: after any sequence of toggleReactPost and toggleReactComment calls made
\* one after another, no post, comment or reply, in the local store or in the
\* backend tables, has a user id both in its up-set and in its down-set.
C1_NoUserInBothSets ==
  /\ \A p \in SeqToSet(posts) :
       /\ Disjoint(p.likesUp, p.likesDown)
       /\ \A c \in SeqToSet(p.comments) :
            /\ Disjoint(c.likesUp, c.likesDown)
            /\ \A r \in SeqToSet(c.replies) : Disjoint(r.likesUp, r.likesDown)
  /\ \A r \in SeqToSet(postRows) \cup SeqToSet(commentRows) \cup SeqToSet(replyRows) :
       Disjoint(r.likes_up, r.likes_down)

\* a reply row that bob has just switched from up to down while alice's up-vote
\* stands
C1_Witness ==
  /\ layer = SupabaseData
  /\ last.op = "toggleReactComment"
  /\ last.caller = "u2"
  /\ last.args.type = "down"
  /\ \E r \in SeqToSet(replyRows) :
       /\ r.id = last.args.replyId
       /\ r.likes_up = {"u1"}
       /\ r.likes_down = {"u2"}

UpSet(postId) == UNION {p.likesUp : p \in {q \in SeqToSet(ListPosts) : q.id = postId}}
DownSet(postId) == UNION {p.likesDown : p \in {q \in SeqToSet(ListPosts) : q.id = postId}}

\* the latest two calls were toggleReactPost(p, 'up') by the same signed-in user
TwiceUp ==
  /\ last.op = "toggleReactPost"
  /\ prev.op = "toggleReactPost"
  /\ last.caller # Null
  /\ last.caller = prev.caller
  /\ last.args = prev.args
  /\ last.args.type = "up"

\* C2: two consecutive toggleReactPost(p, 'up') calls by a signed-in user leave
\* p's up-set as it was before the first, and after each of the two calls the
\* user is in at most one of p's up-set and down-set.
C2_ToggleTwiceRestores ==
  /\ TwiceUp => UpSet(last.args.postId) = prev.upBefore
  /\ (last.op = "toggleReactPost" /\ last.caller # Null) =>
       last.caller \notin UpSet(last.args.postId) \cap DownSet(last.args.postId)

\* the second of two up-toggles by bob has run in the backend while alice's
\* up-vote stands
C2_Witness ==
  /\ TwiceUp
  /\ layer = SupabaseLayer
  /\ last.caller = "u2"
  /\ prev.upBefore = {"u1"}
  /\ UpSet(last.args.postId) = {"u1"}

\* ------------------------------------------------------------- the reply tree: C4
\* parent references and contents a stored comment row may carry
TreeParents == IF parentColumn THEN {Null, "c1", "c2", NoSuchId} ELSE {Null}
TreeContents ==
  IF parentColumn
  THEN {<<"a">>, EncodeReply("c1", <<"a">>)}
  ELSE {<<"a">>, EncodeReply("c1", <<"a">>), EncodeReply("c2", <<"a">>),
        EncodeReply("c3", <<"a">>), EncodeReply(NoSuchId, <<"a">>)}

\* the backend holds two posts and up to MaxRows comment rows, stored in
\* created_at order, some with equal created_at
InitTree ==
  /\ layer = SupabaseLayer
  /\ parentColumn \in BOOLEAN
  /\ now = 2
  /\ users = <<>>
  /\ currentUserId = Null
  /\ posts = <<>>
  /\ profiles = {}
  /\ accounts = {}
  /\ session = Null
  /\ postRows = <<PostRow("p1", "u1", <<"image">>, <<"H">>, 0),
                  PostRow("p2", "u2", <<"image">>, <<"S">>, 1)>>
  /\ \E n \in 0..MaxRows :
       \E post \in [1..n -> {"p1", "p2"}], parent \in [1..n -> TreeParents],
          content \in [1..n -> TreeContents], at \in [1..n -> {1, 2}] :
         /\ \A i, j \in 1..n : i < j => at[i] <= at[j]
         /\ commentRows = [i \in 1..n |->
                             CommentRow(Uid("c", i), post[i], parent[i], "u1", content[i], at[i])]
  /\ replyRows = <<>>
  /\ nextId = [user |-> 2, post |-> 2, c |-> MaxRows]
  /\ last = NoCall
  /\ prev = NoCall
  /\ listed = <<>>
  /\ view = Null
  /\ InitIdle

NextTree == SupabaseLayer_listPostsCall /\ NoPrev

\* listPosts of the single-table layer over stored comment rows
SpecTree == InitTree /\ [][NextTree]_vars

\* the parent a row names: its parent_id, or else the id of its [reply:ID] prefix
ParentRef(row) == IF row.parent_id # Null THEN row.parent_id ELSE ReplyMatch(row.content)

\* how often id k occurs in list s
Occurrences(s, k) == Cardinality({i \in 1..Len(s) : s[i] = k})

\* the place of id k in list s
Place(s, k) == CHOOSE i \in 1..Len(s) : s[i] = k

\* list s of row ids is ascending in created_at, rows of equal created_at in
\* the order they arrived in
AscendingByArrival(s) ==
  \A i, j \in 1..Len(s) :
    i < j => /\ RowById(commentRows, s[i]).created_at <= RowById(commentRows, s[j]).created_at
             /\ Place(view.arrival, s[i]) < Place(view.arrival, s[j])

ListedTree == last.op = "listPosts"

\* C4: in the tree the single-table listPosts builds, each fetched row is in
\* exactly one list: the reply list of the row its parent reference (parent_id,
\* or else its [reply:ID] prefix) names when that row was fetched too, else the
\* top-level list of its post; every list is ascending in created_at with rows
\* of equal created_at in arrival order.
C4_TreePlacement ==
  ListedTree =>
    /\ \A i \in 1..Len(commentRows) :
         LET row == commentRows[i]
             ref == ParentRef(row)
             home == IF ref # Null /\ ref \in RowIds(commentRows)
                     THEN <<"replies", ref>> ELSE <<"byPost", row.post_id>>
         IN /\ \A k \in DOMAIN view.replies :
                 Occurrences(view.replies[k], row.id) =
                   IF home = <<"replies", k>> THEN 1 ELSE 0
            /\ \A q \in DOMAIN view.byPost :
                 Occurrences(view.byPost[q], row.id) =
                   IF home = <<"byPost", q>> THEN 1 ELSE 0
    /\ \A k \in DOMAIN view.replies : AscendingByArrival(view.replies[k])
    /\ \A q \in DOMAIN view.byPost : AscendingByArrival(view.byPost[q])

\* a listed tree where c2 and c3 have equal created_at and arrived the other
\* way round as replies of c1, c3 by its prefix alone
C4_Witness ==
  /\ ListedTree
  /\ Len(commentRows) = 3
  /\ commentRows[2].created_at = commentRows[3].created_at
  /\ commentRows[3].parent_id = Null
  /\ view.arrival = <<"c1", "c3", "c2">>
  /\ view.replies["c1"] = <<"c3", "c2">>
  /\ view.byPost["p1"] = <<"c1">>

\* ------------------------------------------------------------- accounts: C5
AuthNames == {<<"a">>, <<"A">>, <<" ", "a">>, <<"b">>}
AuthPasswords == {"x", "y"}
AuthUsernames == {"alice", "bob", ""}

SignUpAny ==
  \/ \E n \in AuthNames, pw \in AuthPasswords : LocalData_signUp(n, pw, "")
  \/ \E e \in {"alice@x.io", ""}, n \in AuthUsernames : LocalLayer_signUp(e, n, "")
  \/ \E e \in Emails, n \in AuthUsernames : SupabaseLayer_signUp(e, "x", n, "")
  \/ \E n \in AuthNames, pw \in AuthPasswords : SupabaseData_signUp(n, pw, "")

SignInAny ==
  \/ \E n \in AuthNames, pw \in AuthPasswords : LocalData_signIn(n, pw)
  \/ \E i \in {"alice", "bob", "alice@x.io", ""} : LocalLayer_signIn(i)
  \/ \E i \in Emails \cup {"alice", "bob"}, pw \in AuthPasswords : SupabaseLayer_signIn(i, pw)
  \/ \E n \in AuthNames, pw \in AuthPasswords : SupabaseData_signIn(n, pw)

NextAuth ==
  \/ SignUpAny /\ NoPrev
  \/ SignInAny /\ NoPrev
  \/ SignOut /\ NoPrev

\* sign-up, sign-in and sign-out of every layer, from empty stores
SpecAuth == Init /\ [][NextAuth]_vars

\* some account already has exactly this username
UsernameTaken(username) ==
  CASE layer = LocalData -> \E i \in 1..Len(users) : users[i].username = username
    [] layer = SupabaseData -> \E a \in accounts : a.email = username
    [] OTHER -> \E pr \in profiles : pr.username = username

\* a signUp call with a taken username
DuplicateSignUp == last'.op = "signUp" /\ UsernameTaken(last'.args.username)

\* C5: a signUp call whose username is already taken fails and changes nothing:
\* no account, profile or session is created or altered (read for the local
\* layers and the single-table layer).
C5_DuplicateSignUpRejected ==
  [][DuplicateSignUp =>
       /\ ~last'.ok
       /\ UNCHANGED <<users, currentUserId, posts, profiles, accounts, session,
                      postRows, commentRows, replyRows>>]_vars

\* the keyed local store rejects a duplicate sign-up and keeps its state
C5_LocalDataRejects ==
  [][(layer = LocalData /\ DuplicateSignUp) =>
       /\ ~last'.ok
       /\ UNCHANGED <<users, currentUserId, posts>>]_vars

\* ------------------------------------------------------------- posts: C6, C7, C8
\* captions and comment texts the forms may pass on
Captions == {<<"a">>, <<" ", "a">>}
Contents == {<<"a">>, <<" ", "a">>} \cup {EncodeReply(k, <<"a">>) : k \in CommentIds}
ReplyContents == {<<"a">>, <<" ", "a">>}

UpdatePost ==
  \E p \in PostIds, c \in Captions :
    \/ LocalData_updatePost(p, c)
    \/ LocalLayer_updatePost(p, c)
    \/ SupabaseLayer_updatePost(p, c)
    \/ SupabaseData_updatePost(p, c)

DeletePost ==
  \E p \in PostIds :
    \/ LocalData_deletePost(p)
    \/ LocalLayer_deletePost(p)
    \/ SupabaseLayer_deletePost(p)
    \/ SupabaseData_deletePost(p)

AddComment ==
  \E p \in PostIds, c \in Contents :
    \/ LocalData_addComment(p, c, 1)
    \/ LocalLayer_addComment(p, c, 1)
    \/ SupabaseLayer_addComment(p, c, 1)
    \/ SupabaseData_addComment(p, c, 1)

AddReply ==
  \E p \in PostIds, k \in CommentIds, c \in ReplyContents :
    \/ LocalData_addReply(p, k, c, 1)
    \/ LocalLayer_addReply(p, k, c, 1)
    \/ SupabaseLayer_addReply(p, k, c, 1)
    \/ SupabaseData_addReply(p, k, c, 1)

\* the stored content after some use: bob's comment c1 on alice's post, alice's
\* reply to it, and bob's up-vote on the post where the layer records votes
InitThread ==
  /\ layer \in Layers
  /\ parentColumn \in IF layer = SupabaseLayer THEN BOOLEAN ELSE {FALSE}
  /\ now = 5
  /\ users = IF layer = LocalData
             THEN <<[id |-> "user1", username |-> Alice, password |-> "alice",
                     bio |-> "Curious about facts."],
                    [id |-> "user2", username |-> Bob, password |-> "bob",
                     bio |-> "Sharing daily moments."]>>
             ELSE <<>>
  /\ currentUserId = Null
  /\ posts = CASE layer = LocalData ->
                    <<[NewPost("post1", "user1", <<"image">>, <<"W">>, 0) EXCEPT
                         !.likesUp = {"user2"},
                         !.comments =
                           <<[NewComment("c1", "user2", <<"a">>, 3) EXCEPT !.replies =
                               <<NewComment("r2", "user1", <<"a">>, 4)>>]>>],
                      NewPost("post2", "user2", <<"image">>, <<"S">>, 1)>>
               [] layer = LocalLayer ->
                    <<[NewPost("p1", "alice", <<>>, <<"H">>, 1) EXCEPT
                         !.comments =
                           <<[NewComment("c1", "bob", <<"a">>, 3) EXCEPT !.replies =
                               <<NewComment("rc2", "alice", <<"a">>, 4)>>]>>],
                      NewPost("p2", "bob", <<>>, <<"S">>, 0)>>
               [] OTHER -> <<>>
  /\ profiles = CASE layer = LocalLayer ->
                       {[id |-> "alice", username |-> "alice", bio |-> "", email |-> Null],
                        [id |-> "bob", username |-> "bob", bio |-> "", email |-> Null]}
                  [] layer = SupabaseLayer ->
                       {[id |-> "u1", username |-> "alice", bio |-> "", email |-> "alice@x.io"],
                        [id |-> "u2", username |-> "bob", bio |-> "", email |-> "bob@x.io"]}
                  [] OTHER -> {}
  /\ accounts = CASE layer = SupabaseLayer ->
                       {[id |-> "u1", email |-> "alice@x.io", password |-> "alice"],
                        [id |-> "u2", email |-> "bob@x.io", password |-> "bob"]}
                  [] layer = SupabaseData ->
                       {[id |-> "u1", email |-> Alice, password |-> "alice"],
                        [id |-> "u2", email |-> Bob, password |-> "bob"]}
                  [] OTHER -> {}
  /\ session = Null
  /\ postRows = IF layer \in {SupabaseLayer, SupabaseData}
                THEN <<[PostRow("p1", "u1", <<"image">>, <<"H">>, 0) EXCEPT
                          !.likes_up = {"u2"}],
                       PostRow("p2", "u2", <<"image">>, <<"S">>, 1)>>
                ELSE <<>>
  /\ commentRows =
       CASE layer = SupabaseLayer ->
              <<CommentRow("c1", "p1", Null, "u2", <<"a">>, 3),
                CommentRow("c2", "p1", IF parentColumn THEN "c1" ELSE Null, "u1",
                           EncodeReply("c1", <<"a">>), 4)>>
         [] layer = SupabaseData -> <<CommentRow("c1", "p1", Null, "u2", <<"a">>, 3)>>
         [] OTHER -> <<>>
  /\ replyRows = IF layer = SupabaseData
                 THEN <<ReplyRow("r2", "c1", "u1", <<"a">>, 4)>> ELSE <<>>
  /\ nextId = [user |-> 2, post |-> 2, c |-> 2]
  /\ last = NoCall
  /\ prev = NoCall
  /\ listed = <<>>
  /\ view = Null
  /\ InitIdle

NextPosts ==
  \/ SignIn /\ KeepListed
  \/ SignOut /\ KeepListed
  \/ UpdatePost /\ KeepListed
  \/ DeletePost /\ KeepListed
  \/ AddComment /\ KeepListed
  \/ AddReply /\ KeepListed

\* edits and deletes of the stored posts, and one more comment or reply
SpecPosts == InitThread /\ [][NextPosts]_vars

\* the post with this id in a listPosts result
HasPost(list, id) == \E i \in 1..Len(list) : list[i].id = id
PostOf(list, id) == list[CHOOSE i \in 1..Len(list) : list[i].id = id]

\* the ids of the comments of a list and of all replies below them
RECURSIVE TreeIds(_)
TreeIds(comments) ==
  UNION {{comments[i].id} \cup TreeIds(comments[i].replies) : i \in 1..Len(comments)}

\* the latest call was `op`, on a post that was listed
CallOnPost(op) == last.op = op /\ last.ok /\ HasPost(listed, last.args.postId)

\* ... made by the post's owner
CallByOwner(op) == CallOnPost(op) /\ PostOf(listed, last.args.postId).userId = last.caller

\* ... made by someone else, or with no session
CallByOther(op) == CallOnPost(op) /\ PostOf(listed, last.args.postId).userId # last.caller

\* post `id` of `before` is still in `after` with its caption and edited flag
PostKept(before, after, id) ==
  /\ HasPost(after, id)
  /\ PostOf(after, id).caption = PostOf(before, id).caption
  /\ PostOf(after, id).edited = PostOf(before, id).edited

\* C6: updatePost and deletePost are owner-scoped: when the caller's current
\* user id differs from the post's userId (or there is no session), the post
\* stays listed with its caption and edited flag unchanged.
C6_OwnerScoped ==
  (CallByOther("updatePost") \/ CallByOther("deletePost")) =>
    PostKept(listed, ListPosts, last.args.postId)

\* the listing with post `id` given this caption and marked edited
Recaptioned(list, id, caption) ==
  MapSeq(list, LAMBDA p :
    IF p.id = id THEN [p EXCEPT !.caption = caption, !.edited = TRUE] ELSE p)

\* a post marked edited is still marked while it is listed
EditedStays(before, after) ==
  \A i \in 1..Len(before) :
    (before[i].edited /\ HasPost(after, before[i].id)) => PostOf(after, before[i].id).edited

\* the caption a store keeps for a given one: src/src/App.tsx trims it
KeptCaption(caption) == IF layer \in {LocalData, SupabaseData} THEN Trim(caption) ELSE caption

\* C7 (as stated): after updatePost by the post's owner, listPosts shows the
\* post with the caption that was passed and edited = true, everything else
\* unchanged, and edited does not go back to false by any call.
C7_UpdateShowsGivenCaption ==
  /\ CallByOwner("updatePost") =>
       ListPosts = Recaptioned(listed, last.args.postId, last.args.caption)
  /\ EditedStays(listed, ListPosts)

\* C7 (amended): after updatePost by the post's owner, listPosts shows the post
\* with the passed caption, stripped of surrounding whitespace by the stores of
\* src/src/App.tsx, and edited = true (also when the caption is the old one);
\* its id, userId, createdAt, media, comments and reaction sets and every other
\* post are unchanged; no call takes the edited mark from a listed post.
C7_UpdateShowsKeptCaption ==
  /\ CallByOwner("updatePost") =>
       ListPosts = Recaptioned(listed, last.args.postId, KeptCaption(last.args.caption))
  /\ EditedStays(listed, ListPosts)

\* alice has just given her post, which has a comment, a reply and an up-vote
\* and was edited before, a caption that starts with a space
C7_Witness ==
  /\ layer = LocalData
  /\ CallByOwner("updatePost")
  /\ last.caller = "user1"
  /\ last.args = [postId |-> "post1", caption |-> <<" ", "a">>]
  /\ PostOf(listed, "post1").edited
  /\ PostOf(ListPosts, "post1").caption = <<"a">>
  /\ PostOf(ListPosts, "post1").edited
  /\ PostOf(ListPosts, "post1").likesUp = {"user2"}
  /\ Len(PostOf(ListPosts, "post1").comments) = 1

\* C8: after deletePost by the post's owner, listPosts holds no post with that
\* id and no comment or reply that was listed under it, and every other post is
\* listed with its comments unchanged.
C8_DeleteRemovesPostOnly ==
  CallByOwner("deletePost") =>
    LET id == last.args.postId
    IN /\ ~HasPost(ListPosts, id)
       /\ \A i \in 1..Len(ListPosts) :
            TreeIds(ListPosts[i].comments) \cap TreeIds(PostOf(listed, id).comments) = {}
       /\ \A i \in 1..Len(listed) :
            listed[i].id # id =>
              /\ HasPost(ListPosts, listed[i].id)
              /\ PostOf(ListPosts, listed[i].id).comments = listed[i].comments

\* ------------------------------------------------------------- comments: C3, C9, C10
\* the ids of the top-level comments of a comment list
TopIds(comments) == {comments[i].id : i \in 1..Len(comments)}

\* the comments listPosts shows on post `id`
CommentsOf(list, id) == IF HasPost(list, id) THEN PostOf(list, id).comments ELSE <<>>

\* C3: listPosts shows two levels only: a reply to a reply is listed among the
\* replies of the top-level comment it belongs to, so no listed reply has
\* replies of its own and every fetched comment row is listed at one of the
\* two levels.
C3_RepliesFlattened ==
  /\ \A i \in 1..Len(ListPosts) :
       \A j \in 1..Len(ListPosts[i].comments) :
         \A k \in 1..Len(ListPosts[i].comments[j].replies) :
           ListPosts[i].comments[j].replies[k].replies = <<>>
  /\ layer = SupabaseLayer =>
       \A r \in RowIds(SupabaseLayer_wanted) :
         \E i \in 1..Len(ListPosts) :
           \/ r \in TopIds(ListPosts[i].comments)
           \/ \E j \in 1..Len(ListPosts[i].comments) :
                r \in TopIds(ListPosts[i].comments[j].replies)

\* the latest call was a successful addComment of a non-empty text on a listed
\* post by a signed-in user
Commented ==
  /\ CallOnPost("addComment")
  /\ last.caller # Null
  /\ last.args.content # <<>>

\* C9: after addComment({postId: p, content: c}) by signed-in user u succeeds,
\* listPosts shows p with exactly one more top-level comment than before, and
\* the new top-level comment has userId u and content c, in every store.
C9_CommentAppears ==
  Commented =>
    LET before == CommentsOf(listed, last.args.postId)
        after == CommentsOf(ListPosts, last.args.postId)
    IN /\ Len(after) = Len(before) + 1
       /\ \E i \in 1..Len(after) :
            /\ after[i].id \notin TopIds(before)
            /\ after[i].userId = last.caller
            /\ after[i].content = last.args.content

\* the top-level comments the store holds for post `id`
StoredTopLevel(id) ==
  IF layer = SupabaseData
  THEN {r.id : r \in {q \in SeqToSet(commentRows) : q.post_id = id}}
  ELSE TopIds(CommentsOf(listed, id))

\* the latest call was a successful addReply of a non-empty text to a top-level
\* comment of a listed post by a signed-in user
Replied ==
  /\ CallOnPost("addReply")
  /\ last.caller # Null
  /\ last.args.content # <<>>
  /\ last.args.commentId \in StoredTopLevel(last.args.postId)

\* C10: after addReply({postId: p, commentId: k, content: c}) by signed-in user
\* u succeeds, k being a top-level comment of p, listPosts shows p with a new
\* reply in k's reply list whose userId is u and whose content is c, with no
\* encoding prefix, and p has as many top-level comments as before, whether or
\* not the backend took the parent_id column.
C10_ReplyAppears ==
  Replied =>
    LET before == CommentsOf(listed, last.args.postId)
        after == CommentsOf(ListPosts, last.args.postId)
    IN /\ Len(after) = Len(before)
       /\ \E i \in 1..Len(after) :
            /\ after[i].id = last.args.commentId
            /\ \E j \in 1..Len(after[i].replies) :
                 /\ after[i].replies[j].id \notin TreeIds(before)
                 /\ after[i].replies[j].userId = last.caller
                 /\ after[i].replies[j].content = last.args.content

\* ------------------------------------------------------------- signed-out calls: C11
\* the forms hand over one file
CreatePost ==
  \E f \in {"image", "video"} :
    \/ LocalData_createPost(f, <<"a">>, 1)
    \/ LocalLayer_createPost(<<f>>, <<"a">>, 1)
    \/ SupabaseLayer_createPost(<<f>>, <<"a">>, 1, 0)
    \/ SupabaseData_createPost(f, <<"a">>, 1, TRUE)

AddPlainComment ==
  \E p \in PostIds :
    \/ LocalData_addComment(p, <<"a">>, 1)
    \/ LocalLayer_addComment(p, <<"a">>, 1)
    \/ SupabaseLayer_addComment(p, <<"a">>, 1)
    \/ SupabaseData_addComment(p, <<"a">>, 1)

AddPlainReply ==
  \E p \in PostIds, k \in CommentIds :
    \/ LocalData_addReply(p, k, <<"a">>, 1)
    \/ LocalLayer_addReply(p, k, <<"a">>, 1)
    \/ SupabaseLayer_addReply(p, k, <<"a">>, 1)
    \/ SupabaseData_addReply(p, k, <<"a">>, 1)

ProfileNames == {"alice", "zoe"}

UpdateProfile ==
  \E n \in ProfileNames, b \in {"", "hi"} :
    \/ LocalLayer_updateProfile(n, b)
    \/ SupabaseLayer_updateProfile(n, b)

NextLogin ==
  \/ SignIn /\ NoPrev
  \/ SignOut /\ NoPrev
  \/ CreatePost /\ NoPrev
  \/ AddPlainComment /\ NoPrev
  \/ AddPlainReply /\ NoPrev
  \/ UpdateProfile /\ NoPrev

\* the stored thread, nobody signed in; sign-ins, sign-outs and the four
\* mutations that need a session
SpecLogin == InitThread /\ [][NextLogin]_vars

NeedsLogin == {"createPost", "addComment", "addReply", "updateProfile"}

\* C11: createPost, addComment, addReply and updateProfile called while no user
\* is signed in fail with 'Login required' and leave the stored posts, comments,
\* replies and profiles unchanged, in the local stores and in the remote ones
C11_SignedOutCallsRejected ==
  [][(last'.op \in NeedsLogin /\ last'.caller = Null) =>
       /\ ~last'.ok
       /\ last'.error = LoginRequired
       /\ UNCHANGED <<users, posts, profiles, postRows, commentRows, replyRows>>]_vars

\* the stores that test for a session do reject the signed-out call
C11_CheckedStoresReject ==
  [][(/\ layer \in {LocalData, SupabaseData, SupabaseLayer}
      /\ last'.op \in NeedsLogin /\ last'.caller = Null) =>
       /\ ~last'.ok
       /\ last'.error = LoginRequired
       /\ UNCHANGED <<users, posts, profiles, postRows, commentRows, replyRows>>]_vars

\* ------------------------------------------------------------- sign-in: C12
\* the identifier and password of a signIn call name an existing account
Matches(a) ==
  CASE layer = LocalData ->
         \E i \in 1..Len(users) :
           /\ toLowerCase(users[i].username) = toLowerCase(Trim(a.username))
           /\ users[i].password = a.password
    [] layer = SupabaseData ->
         \E acct \in accounts : acct.email = Trim(a.username) /\ acct.password = a.password
    [] layer = SupabaseLayer ->
         \E acct \in accounts :
           /\ acct.password = a.password
           /\ \/ acct.email = a.identifier
              \/ \E pr \in profiles : pr.username = a.identifier /\ pr.email = acct.email
    [] OTHER -> \E pr \in profiles : pr.id = a.identifier

\* a username the profile lookup of the remote store cannot resolve to an email
Unresolvable(a) ==
  /\ layer = SupabaseLayer
  /\ a.identifier \notin Emails
  /\ ~\E pr \in profiles : pr.username = a.identifier

BadSignIn == last'.op = "signIn" /\ ~Matches(last'.args)

\* C12: a signIn with an identifier that matches no account, or with a password
\* that does not match, fails with an invalid-credentials error and leaves the
\* session as it was; in the remote store an unresolvable username fails with
\* the lookup's error, before the authentication request
C12_BadSignInRejected ==
  [][BadSignIn =>
       /\ ~last'.ok
       /\ last'.error \in {InvalidCredentials, InvalidLogin, UsernameNotFound}
       /\ Unresolvable(last'.args) => last'.error = UsernameNotFound
       /\ UNCHANGED <<currentUserId, session>>]_vars

\* the stores that hold credentials do reject the call
C12_CredentialStoresReject ==
  [][(layer # LocalLayer /\ BadSignIn) =>
       /\ ~last'.ok
       /\ last'.error \in {InvalidCredentials, InvalidLogin, UsernameNotFound}
       /\ Unresolvable(last'.args) => last'.error = UsernameNotFound
       /\ UNCHANGED <<currentUserId, session>>]_vars

\* ------------------------------------------------------------- currentUser: C13
\* currentUser: state.currentUser, evaluated once, when createLocalLayer builds
\* the object it returns; state.currentUser is null then, and signIn and signUp
\* assign a new object to state.currentUser, never to the returned property
LocalLayer_currentUser == Null

\* currentUser: user? {...}: null, taken from getUser() when the layer is built;
\* useDataLayer builds the layer anew on every onAuthStateChange
SupabaseLayer_currentUser == session

\* get currentUser(){ return currentUser; }: set by signIn and signOut and by
\* the onAuthStateChange listener
SupabaseData_currentUser == session

\* data.currentUser of the layer in use (the user's id)
CurrentUser ==
  CASE layer = LocalData -> LocalData_currentUser
    [] layer = LocalLayer -> LocalLayer_currentUser
    [] layer = SupabaseLayer -> SupabaseLayer_currentUser
    [] OTHER -> SupabaseData_currentUser

\* the session the stores keep
SessionUser == IF layer \in {LocalData, LocalLayer} THEN currentUserId ELSE session

Follows ==
  /\ CurrentUser = SessionUser
  /\ last.op = "signOut" => CurrentUser = Null
  /\ (last.op \in {"signIn", "signUp"} /\ last.ok) => CurrentUser # Null

\* C13: the currentUser the data layer exposes follows the session: the user who
\* signed in after a successful signIn or signUp, null after signOut, and the
\* same until the next of these calls, in local and in remote mode
C13_CurrentUserFollowsSession == Follows

\* the layers that read the session when asked do follow it
C13_ReadingLayersFollow == layer # LocalLayer => Follows

\* ------------------------------------------------------------- uploads: C15
\* the file lists handed to createPost: none, one or two files, and a list
\* with an empty slot
FileLists ==
  {<<>>, <<"image">>, <<"video">>, <<"image", "video">>, <<"video", "image">>,
   <<Null, "image">>}

Upload ==
  \E files \in FileLists, k \in 0..2 : SupabaseLayer_createPost(files, <<"a">>, 1, k)

InitUpload == InitThread /\ layer = SupabaseLayer

NextUpload ==
  \/ SignIn /\ NoPrev
  \/ SignOut /\ NoPrev
  \/ Upload /\ NoPrev

\* createPost of the single-table remote layer with every upload outcome
SpecUpload == InitUpload /\ [][NextUpload]_vars

\* the objects the bucket gained in this step
Gained == SubSeq(storage', Len(storage) + 1, Len(storage'))

\* C15: the remote createPost uploads the files one at a time in the order
\* given and inserts the post row only after every upload succeeded, with one
\* media_urls and one media_types entry per file in that order; if the k-th
\* upload fails the call fails, no row is inserted and the k-1 files uploaded
\* before it stay in the bucket
C15_UploadsThenInsert ==
  [][(last'.op = "createPost" /\ last'.caller # Null) =>
       LET files == Present(last'.args.files)
           k == last'.args.failAt
           row == postRows'[Len(postRows')]
       IN /\ SubSeq(storage', 1, Len(storage)) = storage
          /\ IF k = 0
             THEN /\ last'.ok
                  /\ Len(postRows') = Len(postRows) + 1
                  /\ SubSeq(postRows', 1, Len(postRows)) = postRows
                  /\ Len(row.media_urls) = Len(files)
                  /\ row.media_types = [i \in 1..Len(files) |-> MediaType(files[i])]
                  /\ Gained = [i \in 1..Len(files) |->
                                 Object(row.media_urls[i], MediaType(files[i]))]
             ELSE /\ ~last'.ok
                  /\ postRows' = postRows
                  /\ Len(Gained) = k - 1
                  /\ \A i \in 1..(k - 1) : Gained[i].type = MediaType(files[i])]_vars

\* a call whose second upload failed left its first file in the bucket, which
\* no post row names
C15_Witness ==
  /\ last.op = "createPost" /\ ~last.ok /\ last.args.failAt = 2
  /\ Len(storage) > Len(StoredObjects)
  /\ storage[Len(storage)].path[1] = last.caller

\* ------------------------------------------------------------- the composer: C14
\* NewPost of src/App.tsx, rendered on route 'new' when isAuthed:
\* submit = ()=>{ if (!files.length && !caption.trim()) return;
\*                onCreate(files, caption.trim()); }
NewPost_submit(files, caption, dt, failAt) ==
  /\ layer \in {LocalLayer, SupabaseLayer}
  /\ CurrentUser # Null
  /\ submitted' = [made |-> TRUE, files |-> files, caption |-> caption]
  /\ IF Len(files) = 0 /\ Trim(caption) = <<>>
     THEN /\ Record(Call("submit", CurrentUser, TRUE, <<>>))
          /\ Unchanged
     ELSE \/ LocalLayer_createPost(files, Trim(caption), dt)
          \/ SupabaseLayer_createPost(files, Trim(caption), dt, failAt)

\* NewPost of src/src/App.tsx:
\* publish: if(!isAuthed) return; if(!file) return; if(!caption.trim()) return;
\*          await onCreate({ file, caption, croppedDataURL })
NewPost_publish(file, caption, dt, uploads) ==
  /\ layer \in {LocalData, SupabaseData}
  /\ submitted' = [made |-> TRUE, files |-> IF file = Null THEN <<>> ELSE <<file>>,
                   caption |-> caption]
  /\ IF CurrentUser = Null \/ file = Null \/ Trim(caption) = <<>>
     THEN /\ Record(Call("publish", CurrentUser, TRUE, <<>>))
          /\ Unchanged
     ELSE \/ LocalData_createPost(file, caption, dt)
          \/ SupabaseData_createPost(file, caption, dt, uploads)

ComposerCaptions == {<<>>, <<" ">>, <<"a">>}

Submit ==
  \E files \in {<<>>, <<"image">>, <<"image", "video">>}, c \in ComposerCaptions,
     k \in 0..1 :
    NewPost_submit(files, c, 1, k)

Publish ==
  \E file \in {Null, "image", "video"}, c \in ComposerCaptions, up \in BOOLEAN :
    NewPost_publish(file, c, 1, up)

\* a step of the composer
Composed == prev' = NoCall /\ listed' = <<>> /\ Realtime /\ NoRefresh

NextCompose ==
  \/ SignIn /\ NoPrev
  \/ SignOut /\ NoPrev
  \/ Submit /\ Composed
  \/ Publish /\ Composed

\* the composers of both applications on a stored thread
SpecCompose == InitThread /\ [][NextCompose]_vars

EmptySubmission(sub) == Len(sub.files) = 0 /\ Trim(sub.caption) = <<>>

NothingIssued == UNCHANGED <<posts, postRows, storage, nextId>>

\* C14: the composer never calls createPost (no upload, no insert) when the file
\* list is empty and the trimmed caption is empty; when at least one of the two
\* is non-empty it passes the submission to createPost
C14_ComposerGuard ==
  [][submitted'.made =>
       IF EmptySubmission(submitted')
       THEN last'.op # "createPost" /\ NothingIssued
       ELSE last'.op = "createPost"]_vars

\* no composer issues a call for an empty submission; the multi-file composer
\* passes every other submission on
C14_EmptyNeverSent ==
  [][submitted'.made =>
       /\ EmptySubmission(submitted') => last'.op # "createPost" /\ NothingIssued
       /\ (layer \in {LocalLayer, SupabaseLayer} /\ ~EmptySubmission(submitted'))
            => last'.op = "createPost"]_vars

\* ------------------------------------------------------------- profiles: C16
GetProfile ==
  \/ \E id \in {"alice", "bob", "zoe"} : LocalLayer_getProfile(id)
  \/ \E id \in {"u1", "u2"} : SupabaseLayer_getProfile(id)

\* prev is the call a getProfile follows
KeepCallBefore ==
  /\ prev' = IF last'.op = "getProfile" THEN last ELSE NoCall
  /\ listed' = <<>>
  /\ NoComposer

InitProfile == InitThread /\ layer \in {LocalLayer, SupabaseLayer}

NextProfile ==
  \/ SignIn /\ KeepCallBefore
  \/ SignOut /\ KeepCallBefore
  \/ GetProfile /\ KeepCallBefore
  \/ UpdateProfile /\ KeepCallBefore

\* profile reads and updates of the layers of src/App.tsx
SpecProfile == InitProfile /\ [][NextProfile]_vars

\* a getProfile of the caller's own id right after their successful updateProfile
ReadAfterUpdate ==
  /\ last.op = "getProfile"
  /\ prev.op = "updateProfile" /\ prev.ok
  /\ last.args.id = prev.caller

EditTexts == {<<"b">>, <<"b", " ">>}

EditComment ==
  \E p \in PostIds, c \in CommentIds, r \in ReplyIds \cup {Null}, t \in EditTexts :
    \/ LocalData_editComment(p, c, r, t)
    \/ SupabaseData_editComment(p, c, r, t)

DeleteComment ==
  \E p \in PostIds, c \in CommentIds, r \in ReplyIds \cup {Null} :
    \/ LocalData_deleteComment(p, c, r)
    \/ SupabaseData_deleteComment(p, c, r)

NextComments ==
  \/ SignIn /\ NoPrev
  \/ SignOut /\ NoPrev
  \/ EditComment /\ NoPrev
  \/ DeleteComment /\ NoPrev

\* edits and deletes of a stored comment and its two replies
SpecComments == InitStoredComments /\ [][NextComments]_vars

\* every stored comment and reply: its id, author, content and edited flag
Entries ==
  IF layer = LocalData
  THEN UNION {UNION {{[id |-> c.id, userId |-> c.userId, content |-> c.content,
                       edited |-> c.edited]} \cup
                     {[id |-> r.id, userId |-> r.userId, content |-> r.content,
                       edited |-> r.edited] : r \in SeqToSet(c.replies)} :
                c \in SeqToSet(p.comments)} : p \in SeqToSet(posts)}
  ELSE {[id |-> r.id, userId |-> r.user_id, content |-> r.content, edited |-> r.edited] :
          r \in SeqToSet(commentRows) \cup SeqToSet(replyRows)}

\* the comment or reply a call targets
Target(a) == IF a.replyId # Null THEN a.replyId ELSE a.commentId

\* C18: a comment or reply is changed only by its author: an editComment or
\* deleteComment targeting x by a caller whose user id differs from x's userId
\* (nobody signed in included, the post's owner included) leaves x present with
\* its content and edited flag unchanged
C18_OnlyAuthorChanges ==
  [][last'.op \in {"editComment", "deleteComment"} =>
       \A x \in Entries :
         (x.id = Target(last'.args) /\ x.userId # last'.caller) => x \in Entries']_vars

\* alice, who owns the post, asked to delete bob's comment on it, and the
\* comment is still stored
C18_Witness ==
  /\ last.op = "deleteComment"
  /\ last.caller \in {"user1", "u1"}
  /\ last.args.commentId = "c1" /\ last.args.replyId = Null
  /\ \E x \in Entries : x.id = "c1" /\ x.userId \in {"user2", "u2"}

\* ------------------------------------------------------------- realtime: C17
\* another client of the same backend writes a table: it up-votes a post or a
\* comment, or adds a row to table replies where the backend keeps replies in a
\* table of their own
OtherClient_write(table) ==
  /\ layer \in {SupabaseLayer, SupabaseData}
  /\ CASE table = "posts" ->
            /\ postRows # <<>>
            /\ postRows' = [postRows EXCEPT ![1] = ToggleRow(@, "u3", "up")]
            /\ UNCHANGED <<commentRows, replyRows, now, nextId>>
       [] table = "comments" ->
            /\ commentRows # <<>>
            /\ commentRows' = [commentRows EXCEPT ![1] = ToggleRow(@, "u3", "up")]
            /\ UNCHANGED <<postRows, replyRows, now, nextId>>
       [] OTHER ->
            /\ ~parentColumn
            /\ nextId.c < MaxComments
            /\ now' = now + 1
            /\ nextId' = [nextId EXCEPT !.c = @ + 1]
            /\ replyRows' = Append(replyRows,
                  ReplyRow(Uid("r", nextId.c + 1), "c1", "u3", <<"a">>, now'))
            /\ UNCHANGED <<postRows, commentRows>>
  /\ Record(Call("other client", "u3", TRUE, [table |-> table]))
  /\ UNCHANGED <<localVars, profiles, accounts, session>>

OtherClient == \E t \in {"posts", "comments", "replies"} : OtherClient_write(t)

Subscribe == SupabaseLayer_subscribe \/ SupabaseData_subscribe

Unsubscribe == SupabaseLayer_unsubscribe \/ SupabaseData_unsubscribe

InitRealtime == InitThread /\ layer \in {SupabaseLayer, SupabaseData}

NextRealtime ==
  \/ SignIn /\ NoPrev
  \/ SignOut /\ NoPrev
  \/ Subscribe /\ NoPrev
  \/ Unsubscribe /\ NoPrev
  \/ AddPlainComment /\ NoPrev
  \/ AddPlainReply /\ NoPrev
  \/ DeletePost /\ NoPrev
  \/ OtherClient /\ NoPrev

\* the remote layers with the subscription of the App effect, their own
\* writes and the writes of another client
SpecRealtime == InitRealtime /\ [][NextRealtime]_vars

TableChanged(t) ==
  CASE t = "posts" -> postRows' # postRows
    [] t = "comments" -> commentRows' # commentRows
    [] OTHER -> replyRows' # replyRows

Tables == {"posts", "comments", "replies"}

\* C17: while the subscription is active every insert, update or delete on the
\* posts, comments and replies tables invokes onChange; once the returned
\* unsubscribe function was called, no later change invokes it
C17_EveryChangeNotifies ==
  [][/\ (channel # {} /\ \E t \in Tables : TableChanged(t)) => notified'
     /\ channel = {} => ~notified']_vars

\* both layers are told of changes on posts and comments, the three-table layer
\* also of changes on replies, and neither after unsubscribing
C17_ListenedTablesNotify ==
  [][/\ (channel # {} /\ \E t \in {"posts", "comments"} : TableChanged(t)) => notified'
     /\ (channel # {} /\ layer = SupabaseData /\ TableChanged("replies")) => notified'
     /\ channel = {} => ~notified']_vars

\* ------------------------------------------------------------- reaction frame: C19
\* every stored post, comment and reply: its id, content and reaction sets
Marks ==
  IF layer \in {LocalData, LocalLayer}
  THEN UNION {{[id |-> p.id, content |-> p.caption, up |-> p.likesUp, down |-> p.likesDown]}
              \cup UNION {{[id |-> c.id, content |-> c.content, up |-> c.likesUp,
                            down |-> c.likesDown]} \cup
                          {[id |-> r.id, content |-> r.content, up |-> r.likesUp,
                            down |-> r.likesDown] : r \in SeqToSet(c.replies)} :
                     c \in SeqToSet(p.comments)} : p \in SeqToSet(posts)}
  ELSE {[id |-> r.id, content |-> r.caption, up |-> r.likes_up, down |-> r.likes_down] :
          r \in SeqToSet(postRows)}
       \cup {[id |-> r.id, content |-> r.content, up |-> r.likes_up, down |-> r.likes_down] :
          r \in SeqToSet(commentRows) \cup SeqToSet(replyRows)}

\* e as it would be with user u taken out of both reaction sets
Without(e, u) == [e EXCEPT !.up = @ \ {u}, !.down = @ \ {u}]

\* C19: toggleReactComment by user u changes only u's membership in the reaction
\* sets of the one targeted entity (the reply with replyId when given, else the
\* comment with commentId); every other reply, comment and post keeps its
\* reaction sets, and all contents are unchanged
C19_OnlyTargetToggled ==
  [][last'.op = "toggleReactComment" =>
       \A e \in Marks :
         IF e.id = Target(last'.args)
         THEN \E f \in Marks' : Without(f, last'.caller) = Without(e, last'.caller)
         ELSE e \in Marks']_vars

\* the store that keeps comments and replies in tables changes only the row
\* it was pointed at
C19_TablesOnlyTargetToggled ==
  [][(layer = SupabaseData /\ last'.op = "toggleReactComment") =>
       \A e \in Marks :
         IF e.id = Target(last'.args)
         THEN \E f \in Marks' : Without(f, last'.caller) = Without(e, last'.caller)
         ELSE e \in Marks']_vars

\* ------------------------------------------------------------- feed order: C20
Seed == LocalData_seed \/ LocalLayer_seed

\* alice opens an account on the empty backend
SignUpDemo ==
  \/ SupabaseLayer_signUp("alice@x.io", "alice", "alice", "")
  \/ SupabaseData_signUp(Alice, "alice", "")

\* two posts of the in-browser stores may carry the same Date.now(); the
\* backend stamps its rows at distinct times
CreatePostAt ==
  \/ \E dt \in {0, 1} : \/ LocalData_createPost("image", <<"a">>, dt)
                        \/ LocalLayer_createPost(<<"image">>, <<"a">>, dt)
  \/ SupabaseLayer_createPost(<<"image">>, <<"a">>, 1, 0)
  \/ SupabaseData_createPost("image", <<"a">>, 1, TRUE)

NextFeed ==
  \/ Seed /\ KeepListed
  \/ SignUpDemo /\ KeepListed
  \/ SignOut /\ KeepListed
  \/ CreatePostAt /\ KeepListed
  \/ UpdatePost /\ KeepListed
  \/ DeletePost /\ KeepListed

\* seeding, posting, editing and deleting from empty stores
SpecFeed == Init /\ [][NextFeed]_vars

Ids(list) == [i \in 1..Len(list) |-> list[i].id]

NonIncreasing(list) ==
  \A i, j \in 1..Len(list) : i < j => list[i].createdAt >= list[j].createdAt

\* C20: after any sequence of createPost, updatePost, deletePost and seed calls
\* listPosts returns the posts newest first (creation timestamps never
\* increase down the list), and updating a caption leaves every post at its
\* position
C20_NewestFirst ==
  /\ NonIncreasing(ListPosts)
  /\ last.op = "updatePost" => Ids(ListPosts) = Ids(listed)

\* three posts are listed and the owner has just edited one that is not the
\* newest
C20_Witness ==
  /\ last.op = "updatePost" /\ last.ok
  /\ Len(ListPosts) = 3
  /\ \E i \in 2..3 : /\ ListPosts[i].id = last.args.postId
                      /\ ListPosts[i].edited
                      /\ ListPosts[1].createdAt > ListPosts[i].createdAt

\* ------------------------------------------------------------- useDataLayer
\* how often the effect of useDataLayer runs in a behaviour
MaxMounts == 2

\* the mode field of each data layer
Mode(l) == IF l \in {SupabaseLayer, SupabaseData} THEN "supabase" ELSE "local"

\* createClient(url, key) throws on text that is no URL
createClient_throws(url) == url = BadUrl

\* url && anon
Configured == env.url # NoUrl /\ env.anon # Null

\* one run of the effect: where its async function stands, whether unsub was
\* assigned, whether the cleanup ran, whether its auth listener is subscribed
Mount(pc) == [pc |-> pc, unsub |-> FALSE, cleaned |-> FALSE, listening |-> FALSE]

\* loadLS(key, fallback): the parsed item, the fallback when there is none
loadLS(key, fallback) == IF ls[key] = NoItem THEN fallback ELSE JSONparse(ls[key])

\* createLocalLayer(): a fresh in-memory state
createLocalLayer ==
  /\ layer' = LocalLayer
  /\ posts' = <<>>
  /\ profiles' = {}
  /\ currentUserId' = Null
  /\ UNCHANGED <<users, cache>>

\* createLocalDataLayer(): users, posts and currentUserId come from localStorage
createLocalDataLayer ==
  /\ layer' = LocalData
  /\ users' = loadLS("users", <<>>)
  /\ posts' = loadLS("posts", <<>>)
  /\ currentUserId' = loadLS("currentUserId", Null)
  /\ UNCHANGED <<profiles, cache>>

\* setLayer(await createSupabaseLayer(sb, adminEmail)): a new layer object with
\* an empty profile cache
createSupabaseLayer ==
  /\ layer' = SupabaseLayer
  /\ cache' = {}
  /\ UNCHANGED <<users, posts, profiles, currentUserId>>

\* what no step of useDataLayer touches
HookFrame ==
  UNCHANGED <<accounts, session, postRows, commentRows, replyRows, parentColumn, now,
              nextId, last, view, storage, channel, env, ls, calls, rendered>>

\* src/App.tsx: the layout effect runs; its async function runs up to its first
\* await (createSupabaseLayer), or exposes the local layer at once
useDataLayerA_effect ==
  /\ env.build = AppA
  /\ Len(mounts) < MaxMounts
  /\ \A i \in 1..Len(mounts) : mounts[i].cleaned
  /\ IF Configured
     THEN /\ mounts' = Append(mounts, Mount(IF createClient_throws(env.url)
                                            THEN "rejected" ELSE "creating"))
          /\ UNCHANGED <<layer, users, posts, profiles, currentUserId, cache>>
     ELSE /\ mounts' = Append(mounts, Mount("done"))
          /\ createLocalLayer
  /\ HookFrame

\* the first createSupabaseLayer resolved: setLayer, then onAuthStateChange
\* registers the listener and unsub is assigned
useDataLayerA_created(i) ==
  /\ mounts[i].pc = "creating"
  /\ mounts' = [mounts EXCEPT ![i] = [@ EXCEPT !.pc = "done", !.unsub = TRUE,
                                                !.listening = TRUE]]
  /\ createSupabaseLayer
  /\ HookFrame

\* the listener of a run is called: setLayer(await createSupabaseLayer(...))
useDataLayerA_onAuthStateChange(i) ==
  /\ mounts[i].listening
  /\ createSupabaseLayer
  /\ UNCHANGED mounts
  /\ HookFrame

\* return () => { if (unsub) unsub(); }
useDataLayerA_cleanup(i) ==
  /\ env.build = AppA
  /\ ~mounts[i].cleaned
  /\ mounts' = [mounts EXCEPT ![i] = [@ EXCEPT !.cleaned = TRUE,
                   !.listening = IF mounts[i].unsub THEN FALSE ELSE @]]
  /\ UNCHANGED <<layer, users, posts, profiles, currentUserId, cache>>
  /\ HookFrame

\* src/src/App.tsx: the effect runs; createClient inside try, the connectivity
\* read awaited; a throw is caught and the local layer is exposed instead
useDataLayerB_effect ==
  /\ env.build = AppB
  /\ Len(mounts) < MaxMounts
  /\ IF Configured /\ ~createClient_throws(env.url)
     THEN /\ mounts' = Append(mounts, Mount("probing"))
          /\ UNCHANGED <<layer, users, posts, profiles, currentUserId, cache>>
     ELSE /\ mounts' = Append(mounts, Mount("done"))
          /\ createLocalDataLayer
  /\ HookFrame

\* the connectivity read returned (with or without an error):
\* setLayer(createSupabaseDataLayer(sb))
useDataLayerB_probed(i) ==
  /\ mounts[i].pc = "probing"
  /\ mounts' = [mounts EXCEPT ![i] = [@ EXCEPT !.pc = "done"]]
  /\ layer' = SupabaseData
  /\ UNCHANGED <<users, posts, profiles, currentUserId, cache>>
  /\ HookFrame

\* the settings a deployment may carry
Envs ==
  {[build |-> b, url |-> u, anon |-> k, adminEmail |-> Null] :
     b \in {AppA, AppB}, u \in {NoUrl, BadUrl, ProjectUrl}, k \in {Null, AnonKey}}

\* before the effect ran: const [layer, setLayer] = useState(null)
InitBoot ==
  /\ layer = Null
  /\ env \in Envs
  /\ users = <<>>
  /\ currentUserId = Null
  /\ posts = <<>>
  /\ profiles = {}
  /\ accounts = {}
  /\ session = Null
  /\ postRows = <<>>
  /\ commentRows = <<>>
  /\ replyRows = <<>>
  /\ parentColumn = FALSE
  /\ now = 2
  /\ nextId = [user |-> 0, post |-> 0, c |-> 0]
  /\ last = NoCall
  /\ prev = NoCall
  /\ listed = <<>>
  /\ view = Null
  /\ storage = <<>>
  /\ cache = {}
  /\ channel = {}
  /\ notified = FALSE
  /\ submitted = NoSubmission
  /\ mounts = <<>>
  /\ ls = [users |-> NoItem, posts |-> NoItem, currentUserId |-> NoItem]
  /\ calls = <<>>
  /\ rendered = NothingRendered

\* alice opens an account in whichever store is exposed
SignUpAlice ==
  \/ LocalData_signUp(Alice, "alice", "")
  \/ LocalLayer_signUp("alice@x.io", "alice", "")
  \/ SignUpDemo

NextBoot ==
  \/ useDataLayerA_effect /\ NoPrev
  \/ (\E i \in 1..Len(mounts) : useDataLayerA_created(i)) /\ NoPrev
  \/ (\E i \in 1..Len(mounts) : useDataLayerA_onAuthStateChange(i)) /\ NoPrev
  \/ (\E i \in 1..Len(mounts) : useDataLayerA_cleanup(i)) /\ NoPrev
  \/ useDataLayerB_effect /\ NoPrev
  \/ (\E i \in 1..Len(mounts) : useDataLayerB_probed(i)) /\ NoPrev
  \/ SignUpAlice /\ NoPrev
  \/ SignIn /\ NoPrev
  \/ SignOut /\ NoPrev

\* the effect of useDataLayer under every setting, then sign-up, sign-in and
\* sign-out on the layer it exposed
SpecBoot == InitBoot /\ [][NextBoot]_vars

\* C21: once a layer is exposed it is the remote one exactly when both the
\* backend URL and the public key are configured
C21_RemoteWhenConfigured ==
  layer # Null => (Mode(layer) = "supabase" <=> Configured)

\* the local layer is exposed whenever a setting is absent, and the mode of the
\* exposed layer never changes, whatever is signed in or out
C21_ModeIsKept ==
  [][/\ layer # Null => layer' # Null /\ Mode(layer') = Mode(layer)
     /\ layer' # Null /\ ~Configured => Mode(layer') = "local"]_vars

\* a run of the effect finished without exposing any layer
C21_NothingExposed ==
  \E i \in 1..Len(mounts) : mounts[i].pc = "rejected" /\ layer = Null

\* ------------------------------------------------------------- administrator
\* String.prototype.toLowerCase on the plain texts of the model (e-mails and the
\* ids of createLocalLayer)
LowerText(e) == IF e = "Alice@X.io" THEN "alice@x.io" ELSE IF e = "Alice" THEN "alice" ELSE e

\* values of VITE_ADMIN_EMAIL: unset, alice's address, the same in other case
AdminEmails == {Null, "alice@x.io", "Alice@X.io"}

\* user.email of the backend session
SupabaseLayer_email ==
  IF \E a \in accounts : a.id = session
  THEN (CHOOSE a \in accounts : a.id = session).email ELSE Null

\* !!(user?.email && adminEmail && user.email.toLowerCase()===adminEmail.toLowerCase())
SupabaseLayer_isAdmin ==
  /\ SupabaseLayer_email # Null
  /\ env.adminEmail # Null
  /\ LowerText(SupabaseLayer_email) = LowerText(env.adminEmail)

\* isAdmin: true
LocalLayer_isAdmin == TRUE

\* supabase.from('posts').delete().eq('user_id', userId): no look at isAdmin;
\* the backend deletes the rows its ownership rule lets the caller delete
SupabaseLayer_deleteAllPostsByUser(userId) ==
  /\ layer = SupabaseLayer
  /\ postRows' = SelectSeq(postRows, LAMBDA r :
                   ~(r.user_id = userId /\ BackendAllows("delete", r.user_id, session)))
  /\ commentRows' = SelectSeq(commentRows, LAMBDA r : r.post_id \in RowIds(postRows'))
  /\ Record(Call("deleteAllPostsByUser", session, TRUE, [userId |-> userId]))
  /\ UNCHANGED <<localVars, profiles, accounts, session, replyRows, now, nextId>>

\* state.posts = state.posts.filter(p=>p.userId!==userId)
LocalLayer_deleteAllPostsByUser(userId) ==
  /\ layer = LocalLayer
  /\ posts' = SelectSeq(posts, LAMBDA p : p.userId # userId)
  /\ Record(Call("deleteAllPostsByUser", currentUserId, TRUE, [userId |-> userId]))
  /\ UNCHANGED <<users, currentUserId, profiles, backendVars, now, nextId>>

\* two posts of alice and bob in a store of src/App.tsx, nobody signed in, under
\* each administrator setting
InitAdmin ==
  /\ layer \in {SupabaseLayer, LocalLayer}
  /\ parentColumn = FALSE
  /\ now = 5
  /\ users = <<>>
  /\ currentUserId = Null
  /\ posts = IF layer = LocalLayer
             THEN <<NewPost("p1", "alice@x.io", <<>>, <<"H">>, 1),
                    NewPost("p2", "bob", <<>>, <<"S">>, 0)>>
             ELSE <<>>
  /\ profiles = IF layer = LocalLayer
                THEN {[id |-> "alice@x.io", username |-> "alice@x.io", bio |-> "",
                       email |-> "alice@x.io"],
                      [id |-> "bob", username |-> "bob", bio |-> "", email |-> Null]}
                ELSE {[id |-> "u1", username |-> "alice", bio |-> "", email |-> "alice@x.io"],
                      [id |-> "u2", username |-> "bob", bio |-> "", email |-> "bob@x.io"]}
  /\ accounts = IF layer = SupabaseLayer
                THEN {[id |-> "u1", email |-> "alice@x.io", password |-> "alice"],
                      [id |-> "u2", email |-> "bob@x.io", password |-> "bob"]}
                ELSE {}
  /\ session = Null
  /\ postRows = IF layer = SupabaseLayer
                THEN <<PostRow("p1", "u1", <<"image">>, <<"H">>, 0),
                       PostRow("p2", "u2", <<"image">>, <<"S">>, 1)>>
                ELSE <<>>
  /\ commentRows = IF layer = SupabaseLayer
                   THEN <<CommentRow("c1", "p1", Null, "u2", <<"a">>, 3)>> ELSE <<>>
  /\ replyRows = <<>>
  /\ nextId = [user |-> 2, post |-> 2, c |-> 1]
  /\ last = NoCall
  /\ prev = NoCall
  /\ listed = <<>>
  /\ view = Null
  /\ storage = StoredObjects
  /\ cache = {}
  /\ channel = {}
  /\ notified = FALSE
  /\ submitted = NoSubmission
  /\ \E a \in AdminEmails : env = [EnvOf(layer) EXCEPT !.adminEmail = a]
  /\ mounts = <<>>
  /\ ls = [users |-> NoItem, posts |-> NoItem, currentUserId |-> NoItem]
  /\ calls = <<>>
  /\ rendered = NothingRendered

SignInAdmin ==
  \/ \E i \in {"alice@x.io", "bob"} : LocalLayer_signIn(i)
  \/ \E w \in {"alice", "bob"} : SupabaseLayer_signIn(w \o "@x.io", w)

\* the authors a bulk delete may name
Authors == {"alice@x.io", "bob", "u1", "u2"}

DeleteAllPostsByUser ==
  \E a \in Authors : \/ SupabaseLayer_deleteAllPostsByUser(a)
                     \/ LocalLayer_deleteAllPostsByUser(a)

NextAdmin ==
  \/ SignInAdmin /\ KeepListed
  \/ SignOut /\ KeepListed
  \/ CreatePost /\ KeepListed
  \/ DeleteAllPostsByUser /\ KeepListed

\* sign-in, sign-out, posting and bulk deletes on the stores of src/App.tsx
SpecAdmin == InitAdmin /\ [][NextAdmin]_vars

\* the isAdmin flag of the exposed layer
IsAdmin == IF layer = SupabaseLayer THEN SupabaseLayer_isAdmin ELSE LocalLayer_isAdmin

\* the e-mail of the signed-in user, Null when nobody is signed in
SignedInEmail ==
  IF layer = SupabaseLayer THEN SupabaseLayer_email
  ELSE IF currentUserId = Null THEN Null ELSE LocalLayer_email(currentUserId)

\* a user is signed in whose e-mail is the configured administrator identity
AdminSignedIn ==
  /\ SignedInEmail # Null
  /\ env.adminEmail # Null
  /\ LowerText(SignedInEmail) = LowerText(env.adminEmail)

\* the latest step was a deleteAllPostsByUser call
BulkDelete == last'.op = "deleteAllPostsByUser" /\ last' # last

\* C22: isAdmin is true exactly when the administrator is signed in;
\* deleteAllPostsByUser removes posts only when isAdmin is true, and then it
\* removes exactly the posts of the named user
C22_AdminGatedBulkDelete ==
  [][/\ IsAdmin <=> AdminSignedIn
     /\ BulkDelete =>
          ListPosts' = IF IsAdmin
                       THEN SelectSeq(listed', LAMBDA p : p.userId # last'.args.userId)
                       ELSE listed']_vars

\* the flag of the remote layer follows the session, and the in-memory layer
\* removes exactly the posts of the named user
C22_RemoteFlagLocalFilter ==
  [][/\ layer = SupabaseLayer => (IsAdmin <=> AdminSignedIn)
     /\ BulkDelete /\ layer = LocalLayer =>
          ListPosts' = SelectSeq(listed', LAMBDA p : p.userId # last'.args.userId)]_vars

\* ------------------------------------------------------------- accounts of the local stores
\* throw new Error("Username already taken")
UsernameTakenError == "Username already taken"

\* updateAccount: nothing when signed out; throws when another user has the
\* name (trimmed, lower-cased); else the current user's name and bio are
\* replaced and persist() runs
LocalData_updateAccount(username, bio) ==
  /\ layer = LocalData
  /\ LET cu == LocalData_currentUser
         a == [username |-> username, bio |-> bio]
     IN IF cu = Null
        THEN Record(Call("updateAccount", cu, TRUE, a)) /\ Unchanged
        ELSE IF \E i \in 1..Len(users) :
                  /\ toLowerCase(users[i].username) = toLowerCase(Trim(username))
                  /\ users[i].id # cu
        THEN ThrowsError("updateAccount", cu, a, UsernameTakenError)
        ELSE /\ users' = MapSeq(users, LAMBDA u :
                           IF u.id = cu THEN [u EXCEPT !.username = Trim(username),
                                                       !.bio = bio]
                           ELSE u)
             /\ Persisted(Call("updateAccount", cu, TRUE, a))
             /\ UNCHANGED <<currentUserId, posts, profiles, backendVars, now, nextId>>
             /\ persist

\* user names that differ in case only, for the store keyed by name
LayerNames == {"alice", "Alice", "bob"}

InitAccounts == Init /\ layer \in {LocalData, LocalLayer}

NextAccounts ==
  \/ (\E n \in AuthNames : LocalData_signUp(n, "x", "")) /\ NoPrev
  \/ (\E n \in LayerNames : LocalLayer_signUp("", n, "")) /\ NoPrev
  \/ (\E n \in AuthNames : LocalData_signIn(n, "x")) /\ NoPrev
  \/ (\E n \in LayerNames : LocalLayer_signIn(n)) /\ NoPrev
  \/ SignOut /\ NoPrev
  \/ (\E n \in AuthNames : LocalData_updateAccount(n, "")) /\ NoPrev
  \/ (\E n \in LayerNames : LocalLayer_updateProfile(n, "")) /\ NoPrev

\* sign-up, sign-in, sign-out and account updates of the two local stores
SpecAccounts == InitAccounts /\ [][NextAccounts]_vars

\* no two distinct users of the store carry the same name, compared trimmed
\* and lower-cased
UniqueNames ==
  /\ \A i, j \in 1..Len(users) :
       i # j => toLowerCase(Trim(users[i].username)) # toLowerCase(Trim(users[j].username))
  /\ \A p, q \in profiles : p.id # q.id => LowerText(p.username) # LowerText(q.username)

\* the step is a sign-up or an account update naming a user name another user
\* of the store carries
Collides ==
  /\ last' # last
  /\ \/ /\ layer = LocalData
        /\ last'.op \in {"signUp", "updateAccount"}
        /\ \E i \in 1..Len(users) :
             /\ toLowerCase(Trim(users[i].username)) = toLowerCase(Trim(last'.args.username))
             /\ last'.op = "updateAccount" => last'.caller \notin {Null, users[i].id}
     \/ /\ layer = LocalLayer
        /\ last'.op \in {"signUp", "updateProfile"}
        /\ \E p \in profiles :
             /\ LowerText(p.username) = LowerText(last'.args.username)
             /\ last'.op = "updateProfile" => last'.caller \notin {Null, p.id}

\* C23: in the local stores no two distinct users ever carry the same user name
\* (trimmed, case-insensitive), and a sign-up or update that would collide
\* fails and changes no user
C23_UsernamesUnique ==
  [][/\ UniqueNames'
     /\ Collides => ~last'.ok /\ UNCHANGED <<users, profiles>>]_vars

\* the store persisted to localStorage keeps its user names unique and rejects
\* a colliding sign-up or update
C23_LocalDataUnique ==
  [][layer = LocalData =>
       /\ UniqueNames'
       /\ Collides => ~last'.ok /\ UNCHANGED <<users, profiles>>]_vars

\* ------------------------------------------------------------- reactions of several clients
\* how many remote reaction calls a behaviour starts
MaxCalls == 3

\* the rows of a backend table
LikesRows(table) ==
  CASE table = "posts" -> postRows
    [] table = "comments" -> commentRows
    [] table = "replies" -> replyRows

\* a call that holds the likes it selected and has not written yet; `at` is its
\* place in the order of writes once it has
Pending(op, u, table, id, type) ==
  [op |-> op, user |-> u, table |-> table, id |-> id, type |-> type,
   up |-> RowById(LikesRows(table), id).likes_up,
   down |-> RowById(LikesRows(table), id).likes_down, at |-> 0]

\* await supabase.from(table).select('likes_up, likes_down').eq('id', id).single()
\* by the client of signed-in user u
select_likes(op, u, table, id, type) ==
  /\ Len(calls) < MaxCalls
  /\ u \in {a.id : a \in accounts}
  /\ id \in RowIds(LikesRows(table))
  /\ calls' = Append(calls, Pending(op, u, table, id, type))
  /\ UNCHANGED <<layer, users, currentUserId, posts, profiles, accounts, session,
                 postRows, commentRows, replyRows, parentColumn, now, nextId, last,
                 view, storage, cache, channel, env, mounts, ls, rendered>>

\* variant: only the likes_down column is written
UpdateLikes_downColumn(rows, id, up, down) ==
  MapSeq(rows, LAMBDA r : IF r.id = id THEN [r EXCEPT !.likes_down = down] ELSE r)

\* update({ likes_up:[...up], likes_down:[...down] }).eq('id', id): one
\* statement sets both columns of the row
UpdateLikes(rows, id, up, down) ==
  MapSeq(rows, LAMBDA r :
    IF r.id = id THEN [r EXCEPT !.likes_up = up, !.likes_down = down] ELSE r)

\* how many calls have written
Written == Cardinality({j \in 1..Len(calls) : calls[j].at > 0})

\* variant: the sets are computed from the row as it is when the write arrives
update_likes_fresh(i) ==
  /\ calls[i].at = 0
  /\ LET c == calls[i]
         row == RowById(LikesRows(c.table), c.id)
         t == ToggleSets(row.likes_up, row.likes_down, c.user, c.type)
     IN /\ postRows' = IF c.table = "posts"
                       THEN UpdateLikes(postRows, c.id, t.up, t.down) ELSE postRows
        /\ commentRows' = IF c.table = "comments"
                          THEN UpdateLikes(commentRows, c.id, t.up, t.down) ELSE commentRows
        /\ replyRows' = IF c.table = "replies"
                        THEN UpdateLikes(replyRows, c.id, t.up, t.down) ELSE replyRows
        /\ calls' = [calls EXCEPT ![i].at = Written + 1]
        /\ last' = Call(c.op, c.user, TRUE, [id |-> c.id, type |-> c.type])
  /\ UNCHANGED <<layer, users, currentUserId, posts, profiles, accounts, session,
                 parentColumn, now, nextId, view, storage, cache, channel, env, mounts,
                 ls, rendered>>

\* the rest of a toggle after its select: the sets are computed from the likes
\* the call selected, then written with one update; no error comes back
update_likes(i) ==
  /\ calls[i].at = 0
  /\ LET c == calls[i]
         t == ToggleSets(c.up, c.down, c.user, c.type)
     IN /\ postRows' = IF c.table = "posts"
                       THEN UpdateLikes(postRows, c.id, t.up, t.down) ELSE postRows
        /\ commentRows' = IF c.table = "comments"
                          THEN UpdateLikes(commentRows, c.id, t.up, t.down) ELSE commentRows
        /\ replyRows' = IF c.table = "replies"
                        THEN UpdateLikes(replyRows, c.id, t.up, t.down) ELSE replyRows
        /\ calls' = [calls EXCEPT ![i].at = Written + 1]
        /\ last' = Call(c.op, c.user, TRUE, [id |-> c.id, type |-> c.type])
  /\ UNCHANGED <<layer, users, currentUserId, posts, profiles, accounts, session,
                 parentColumn, now, nextId, view, storage, cache, channel, env, mounts,
                 ls, rendered>>

\* createSupabaseLayer.toggleReactPost up to its first await
SupabaseLayer_toggleReactPost_select(u, postId, type) ==
  layer = SupabaseLayer /\ select_likes("toggleReactPost", u, "posts", postId, type)

\* createSupabaseLayer.toggleReactPost from getUser() to the update
SupabaseLayer_toggleReactPost_update(i) ==
  layer = SupabaseLayer /\ update_likes(i)

\* createSupabaseDataLayer.toggleReactPost up to its await
SupabaseData_toggleReactPost_select(u, postId, type) ==
  layer = SupabaseData /\ select_likes("toggleReactPost", u, "posts", postId, type)

\* createSupabaseDataLayer.toggleReactComment up to its await: the comments row
\* without replyId, the replies row with it
SupabaseData_toggleReactComment_select(u, commentId, replyId, type) ==
  /\ layer = SupabaseData
  /\ IF replyId = Null
     THEN select_likes("toggleReactComment", u, "comments", commentId, type)
     ELSE select_likes("toggleReactComment", u, "replies", replyId, type)

\* createSupabaseDataLayer.toggleReactPost / toggleReactComment after the select
SupabaseData_toggleReact_update(i) ==
  layer = SupabaseData /\ update_likes(i)

\* the signed-in users of the two clients
Clients == {"u1", "u2"}

InitRace == InitThread /\ layer \in {SupabaseLayer, SupabaseData}

NextRace ==
  \/ (\E u \in Clients, p \in {"p1", "p2"}, t \in ReactTypes :
        SupabaseLayer_toggleReactPost_select(u, p, t)) /\ NoPrev
  \/ (\E i \in 1..Len(calls) : SupabaseLayer_toggleReactPost_update(i)) /\ NoPrev
  \/ (\E u \in Clients, t \in ReactTypes :
        SupabaseData_toggleReactPost_select(u, "p2", t)) /\ NoPrev
  \/ (\E u \in Clients, r \in {Null, "r2"}, t \in ReactTypes :
        SupabaseData_toggleReactComment_select(u, "c1", r, t)) /\ NoPrev
  \/ (\E i \in 1..Len(calls) : SupabaseData_toggleReact_update(i)) /\ NoPrev

\* reaction toggles of two clients on the stored thread, each toggle a select
\* and a later update
SpecRace == InitRace /\ [][NextRace]_vars

\* the call on the same row as call i that wrote last
LastWriter(i) ==
  /\ calls[i].at > 0
  /\ \A j \in 1..Len(calls) :
       (calls[j].table = calls[i].table /\ calls[j].id = calls[i].id) =>
         calls[j].at <= calls[i].at

\* C24: the row holds exactly what the call that wrote last computed from the
\* likes it had selected, whatever the other calls wrote in between, and no
\* toggle reports an error; so when two users select the same post before
\* either writes and both add a vote, only the later writer's vote is stored
C24_LastWriterWins ==
  /\ last.op \in {"toggleReactPost", "toggleReactComment"} => last.ok
  /\ \A i \in 1..Len(calls) :
       LastWriter(i) =>
         LET c == calls[i]
             row == RowById(LikesRows(c.table), c.id)
             t == ToggleSets(c.up, c.down, c.user, c.type)
         IN row.likes_up = t.up /\ row.likes_down = t.down

\* alice and bob both selected post p2 with no votes, both added an up-vote
\* and both calls returned: the stored up-set holds the later writer only
C24_Witness ==
  \E i, j \in 1..Len(calls) :
    /\ calls[i].user # calls[j].user
    /\ calls[i].table = "posts" /\ calls[j].table = "posts"
    /\ calls[i].id = "p2" /\ calls[j].id = "p2"
    /\ calls[i].type = "up" /\ calls[j].type = "up"
    /\ calls[i].up = {} /\ calls[j].up = {}
    /\ 0 < calls[i].at /\ calls[i].at < calls[j].at
    /\ LastWriter(j)
    /\ RowById(postRows, "p2").likes_up = {calls[j].user}
    /\ last.ok

\* C28: whatever the order in which the selects and the updates of concurrent
\* remote toggles arrive, by one user in two sessions or by different users, no
\* stored post, comment or reply row has a user id in both likes_up and
\* likes_down
C28_RowsNeverInBothSets ==
  \A t \in {"posts", "comments", "replies"} :
    \A r \in SeqToSet(LikesRows(t)) : r.likes_up \cap r.likes_down = {}

\* two sessions of one user selected the same row before either wrote, one
\* voted up and the other down, and both have written
C28_Witness ==
  \E i, j \in 1..Len(calls) :
    /\ calls[i].user = calls[j].user
    /\ calls[i].table = calls[j].table /\ calls[i].id = calls[j].id
    /\ calls[i].type = "up" /\ calls[j].type = "down"
    /\ calls[i].up = calls[j].up /\ calls[i].down = calls[j].down
    /\ calls[i].user \notin calls[i].up \cup calls[i].down
    /\ calls[i].at > 0 /\ calls[j].at > 0
    /\ LastWriter(j)
    /\ calls[j].user \in RowById(LikesRows(calls[j].table), calls[j].id).likes_down

\* ------------------------------------------------------------- App.refresh
\* listPosts calls of refresh() that may be in flight at once
MaxInFlight == 2

\* refresh(): const list = await data.listPosts(), issued after the step's data
\* call; `mutated` says whether that call changed the store, which makes every
\* list already fetched an older snapshot
App_refresh(mutated) ==
  /\ Len(rendered.inFlight) < MaxInFlight
  /\ rendered' = [rendered EXCEPT !.inFlight =
       Append([i \in 1..Len(@) |-> [@[i] EXCEPT !.stale = @ \/ mutated]],
              [list |-> ListPosts', stale |-> FALSE])]

\* what a step of refresh itself leaves alone
RefreshFrame ==
  UNCHANGED <<layer, users, currentUserId, posts, profiles, accounts, session,
              postRows, commentRows, replyRows, parentColumn, now, nextId, last,
              view, storage, cache, channel, env, mounts, ls, calls>>

\* refresh() called by the effect or by the realtime subscription
App_refresh_issue == RefreshFrame /\ App_refresh(FALSE)

\* variant: a list is shown only while none is shown yet
App_refresh_resolve_first(i) ==
  /\ i \in 1..Len(rendered.inFlight)
  /\ rendered' = [posts |-> IF rendered.posts = <<>> THEN rendered.inFlight[i].list
                            ELSE rendered.posts,
                  stale |-> rendered.inFlight[i].stale,
                  inFlight |-> [j \in 1..(Len(rendered.inFlight) - 1) |->
                                  rendered.inFlight[IF j < i THEN j ELSE j + 1]]]
  /\ RefreshFrame

\* a listPosts call resolves: setPosts(list), whichever call it is
App_refresh_resolve(i) ==
  /\ i \in 1..Len(rendered.inFlight)
  /\ rendered' = [posts |-> rendered.inFlight[i].list,
                  stale |-> rendered.inFlight[i].stale,
                  inFlight |-> [j \in 1..(Len(rendered.inFlight) - 1) |->
                                  rendered.inFlight[IF j < i THEN j ELSE j + 1]]]
  /\ RefreshFrame

\* a step of a handler of App: the data call, then refresh()
Handled(mutated) ==
  /\ prev' = NoCall
  /\ listed' = <<>>
  /\ Realtime
  /\ submitted' = NoSubmission
  /\ App_refresh(mutated)

\* onEditPost / doUpdatePost on the first stored post
EditFirstPost ==
  \/ LocalData_updatePost("post1", <<"b">>)
  \/ LocalLayer_updatePost("p1", <<"b">>)
  \/ SupabaseLayer_updatePost("p1", <<"b">>)
  \/ SupabaseData_updatePost("p1", <<"b">>)

\* onDeletePost / doDeletePost on the second stored post
DeleteSecondPost ==
  \/ LocalData_deletePost("post2")
  \/ LocalLayer_deletePost("p2")
  \/ SupabaseLayer_deletePost("p2")
  \/ SupabaseData_deletePost("p2")

\* doSignIn: src/App.tsx calls refresh() after signIn; src/src/App.tsx leaves
\* it to a timer
SignedIn == IF env.build = AppA THEN Handled(FALSE) ELSE NoPrev

NextRefresh ==
  \/ SignIn /\ SignedIn
  \/ EditFirstPost /\ Handled(TRUE)
  \/ DeleteSecondPost /\ Handled(TRUE)
  \/ App_refresh_issue /\ prev' = NoCall /\ listed' = <<>> /\ Realtime
       /\ submitted' = NoSubmission
  \/ (\E i \in 1..MaxInFlight : App_refresh_resolve(i)) /\ prev' = NoCall
       /\ listed' = <<>> /\ Realtime /\ submitted' = NoSubmission

\* edits and deletes through the handlers of App with the refreshes they and
\* the subscription issue, each resolving in any order
SpecRefresh == InitThread /\ [][NextRefresh]_vars

\* the step resolves the i-th listPosts call in flight
Resolves(i) ==
  /\ i \in 1..Len(rendered.inFlight)
  /\ Len(rendered'.inFlight) = Len(rendered.inFlight) - 1
  /\ \A j \in 1..Len(rendered'.inFlight) :
       rendered'.inFlight[j] = rendered.inFlight[IF j < i THEN j ELSE j + 1]

\* C25: the list rendered is the result of the listPosts call that resolved
\* last, older snapshot or not; and a refresh that resolves with no other
\* refresh in flight and no change of the store since it was issued renders
\* the store's current listPosts result
C25_LastResolvedIsShown ==
  [][/\ Len(rendered'.inFlight) < Len(rendered.inFlight) =>
          \E i \in 1..Len(rendered.inFlight) :
            Resolves(i) /\ rendered'.posts = rendered.inFlight[i].list
     /\ (Resolves(1) /\ Len(rendered.inFlight) = 1 /\ ~rendered.inFlight[1].stale) =>
          rendered'.posts = ListPosts']_vars

\* two refreshes overlapped an edit and the one issued before it resolved
\* last: nothing is in flight and the list shown is not the store's listing
C25_Witness ==
  /\ rendered.inFlight = <<>>
  /\ rendered.stale
  /\ rendered.posts # <<>>
  /\ rendered.posts # ListPosts
  /\ last.op = "updatePost"

\* ------------------------------------------------------------- the store kept in localStorage
\* src/src/App.tsx without backend settings, before its effect ran
InitStore == InitBoot /\ env.build = AppB /\ env.url = NoUrl /\ env.anon = Null

NextStore ==
  \/ useDataLayerB_effect /\ NoPrev
  \/ LocalData_seed /\ NoPrev
  \/ LocalData_signUp(Alice, "alice", "") /\ NoPrev
  \/ LocalData_signIn(Alice, "alice") /\ NoPrev
  \/ LocalData_signOut /\ NoPrev
  \/ LocalData_updateAccount(<<"c">>, "") /\ NoPrev
  \/ LocalData_createPost("image", <<"a">>, 0) /\ NoPrev
  \/ LocalData_updatePost("post1", <<"b">>) /\ NoPrev
  \/ LocalData_deletePost("post1") /\ NoPrev
  \/ LocalData_addComment("post2", <<"a">>, 0) /\ NoPrev
  \/ LocalData_addReply("post2", "c1", <<"a">>, 0) /\ NoPrev
  \/ LocalData_toggleReactPost("post2", "up") /\ NoPrev
  \/ LocalData_toggleReactComment("post2", "c1", Null, "up") /\ NoPrev
  \/ LocalData_editComment("post2", "c1", Null, <<"b">>) /\ NoPrev
  \/ LocalData_deleteComment("post2", "c1", Null) /\ NoPrev

\* every operation of the store kept in localStorage, and a second data layer
\* created from what the first one saved
SpecStore == InitStore /\ [][NextStore]_vars

\* what a data layer created now would load from the three keys
Reloaded ==
  [users |-> loadLS("users", <<>>), posts |-> loadLS("posts", <<>>),
   currentUserId |-> loadLS("currentUserId", Null)]

\* the users, the posts and the current user id of the exposed store
InMemory == [users |-> users, posts |-> posts, currentUserId |-> currentUserId]

\* an operation of the exposed store has completed
Operated == layer = LocalData /\ last.op # "none"

\* C26: after every completed operation of the local store the items under the
\* three keys equal the users, the posts and the current user id in memory
C26_StorageMirrorsMemory ==
  Operated => Reloaded = InMemory

\* every operation but seed leaves the three items equal to memory when it
\* returns
C26_AllButSeedPersist ==
  [][(layer = LocalData /\ last' # last /\ last'.ok /\ last'.op # "seed") =>
       Reloaded' = InMemory']_vars

\* a data layer created from storage after seed starts signed out although
\* the seeding layer had alice signed in
C26_SeedSessionLost ==
  /\ Len(mounts) = 2
  /\ last.op = "seed"
  /\ users # <<>>
  /\ currentUserId = Null

\* ------------------------------------------------------------- fetched rows and the trees shown
\* the ids reached from the set `ids` of nodes through at most n reply lists
RECURSIVE Below(_, _)
Below(ids, n) ==
  IF n = 0 THEN ids
  ELSE Below(ids \cup UNION {SeqToSet(view.replies[k]) : k \in ids}, n - 1)

\* the nodes of the tree listPosts returns for post p: comments: byPost.get(p.id)
\* and everything nested in their replies
TreeOf(p) == Below(SeqToSet(view.byPost[p]), MaxRows)

\* the number of lists of the built view that hold id k
ListsHolding(k) ==
  Cardinality({r \in DOMAIN view.replies : Occurrences(view.replies[r], k) > 0})
    + Cardinality({q \in DOMAIN view.byPost : Occurrences(view.byPost[q], k) > 0})

\* row is shown once, and in the tree of the post its post_id names
ShownOnceInOwnPost(row) ==
  /\ row.id \in TreeOf(row.post_id)
  /\ \A q \in DOMAIN view.byPost : q # row.post_id => row.id \notin TreeOf(q)
  /\ ListsHolding(row.id) = 1
  /\ \A r \in DOMAIN view.replies : Occurrences(view.replies[r], row.id) <= 1
  /\ \A q \in DOMAIN view.byPost : Occurrences(view.byPost[q], row.id) <= 1

\* the row names a fetched row as its parent
HasFetchedParent(row) == ParentRef(row) # Null /\ ParentRef(row) \in RowIds(commentRows)

\* the ids on the chain of parents of id k, at most n rows up
RECURSIVE Ancestors(_, _)
Ancestors(k, n) ==
  IF n = 0 \/ ~HasFetchedParent(RowById(commentRows, k)) THEN {}
  ELSE LET up == ParentRef(RowById(commentRows, k))
       IN {up} \cup Ancestors(up, n - 1)

\* no fetched row is its own ancestor and every fetched parent is a row of
\* the same post
SoundParents ==
  \A i \in 1..Len(commentRows) :
    LET row == commentRows[i]
    IN /\ row.id \notin Ancestors(row.id, MaxRows)
       /\ \A k \in Ancestors(row.id, MaxRows) :
            RowById(commentRows, k).post_id = row.post_id

\* C27: whatever parents the fetched comment rows name (themselves, a reply, a
\* cycle, a missing id, a comment of another post), each fetched row appears
\* exactly once in the result of listPosts and inside the tree of the post its
\* own post_id names
C27_EveryRowOnceInItsPost ==
  ListedTree => \A i \in 1..Len(commentRows) : ShownOnceInOwnPost(commentRows[i])

\* when no row is its own ancestor and parents are rows of the same post, each
\* fetched row appears exactly once, in the tree of its own post
C27_SoundParentsShown ==
  (ListedTree /\ SoundParents) =>
    \A i \in 1..Len(commentRows) : ShownOnceInOwnPost(commentRows[i])

\* c1 names itself as parent: it is in its own reply list and in no post's tree
C27_SelfParentDropped ==
  /\ ListedTree
  /\ Len(commentRows) = 1
  /\ commentRows[1].parent_id = "c1"
  /\ view.replies["c1"] = <<"c1">>
  /\ view.byPost["p1"] = <<>>
  /\ view.byPost["p2"] = <<>>

\* a row of p2 names a comment of p1 as parent: it is shown under p1
C27_ShownUnderOtherPost ==
  /\ ListedTree
  /\ Len(commentRows) = 2
  /\ commentRows[1].post_id = "p1"
  /\ commentRows[2].post_id = "p2"
  /\ "c2" \in TreeOf("p1")
  /\ "c2" \notin TreeOf("p2")

\* ------------------------------------------------------------- profile reads during an update
\* what a step of getProfile or updateProfile leaves alone besides the
\* profiles table, the cache and the calls in flight
ProfileFrame ==
  UNCHANGED <<layer, users, currentUserId, posts, accounts, session, postRows,
              commentRows, replyRows, parentColumn, now, nextId, view, storage,
              channel, env, mounts, ls>>

\* a getProfile or updateProfile that awaits the backend's answer; data is the
\* row the backend read or wrote
Awaiting(op, id, data) == [op |-> op, id |-> id, data |-> data, done |-> FALSE]

\* _getProfile up to its await: the cache has no entry for id, the select
\* reads the row
SupabaseLayer_getProfile_select(id) ==
  /\ layer = SupabaseLayer
  /\ Len(calls) < MaxCalls
  /\ \A pr \in cache : pr.id # id
  /\ calls' = Append(calls, Awaiting("getProfile", id, ProfileRow(id)))
  /\ UNCHANGED <<profiles, cache, last>>
  /\ ProfileFrame

\* _getProfile after its await: if (data) cache.set(id, data); return data
SupabaseLayer_getProfile_resolve(i) ==
  /\ layer = SupabaseLayer
  /\ calls[i].op = "getProfile" /\ ~calls[i].done
  /\ LET c == calls[i]
     IN /\ cache' = IF c.data # NoProfile
                    THEN {pr \in cache : pr.id # c.id} \cup {c.data} ELSE cache
        /\ last' = [Call("getProfile", session, TRUE, [id |-> c.id]) EXCEPT
                      !.result = c.data]
  /\ calls' = [calls EXCEPT ![i].done = TRUE]
  /\ UNCHANGED profiles
  /\ ProfileFrame

\* updateProfile up to the await of its upsert, for a signed-in user whose
\* new username no other profile holds
SupabaseLayer_updateProfile_upsert(username, bio) ==
  /\ layer = SupabaseLayer
  /\ Len(calls) < MaxCalls
  /\ LET u == SupabaseLayer_getUser
         acct == CHOOSE a \in accounts : a.id = u
         row == [id |-> u, username |-> username, bio |-> bio, email |-> acct.email]
     IN /\ u # Null
        /\ ~UsernameConflict(u, username)
        /\ profiles' = {pr \in profiles : pr.id # u} \cup {row}
        /\ calls' = Append(calls, Awaiting("updateProfile", u, row))
  /\ UNCHANGED <<cache, last>>
  /\ ProfileFrame

\* updateProfile after its upsert: cache.delete(u.id)
SupabaseLayer_updateProfile_resolve(i) ==
  /\ layer = SupabaseLayer
  /\ calls[i].op = "updateProfile" /\ ~calls[i].done
  /\ LET c == calls[i]
     IN /\ cache' = {pr \in cache : pr.id # c.id}
        /\ last' = Call("updateProfile", c.id, TRUE,
                        [username |-> c.data.username, bio |-> c.data.bio])
  /\ calls' = [calls EXCEPT ![i].done = TRUE]
  /\ UNCHANGED profiles
  /\ ProfileFrame

InitOverlap == InitThread /\ layer = SupabaseLayer /\ ~parentColumn

NextOverlap ==
  \/ (\E w \in {"alice", "bob"} : SupabaseLayer_signIn(w \o "@x.io", w)) /\ NoPrev
  \/ (\E id \in {"u1", "u2"} : SupabaseLayer_getProfile_select(id)) /\ NoPrev
  \/ (\E i \in 1..Len(calls) : SupabaseLayer_getProfile_resolve(i)) /\ NoPrev
  \/ (\E n \in ProfileNames, b \in {"", "hi"} :
        SupabaseLayer_updateProfile_upsert(n, b)) /\ NoPrev
  \/ (\E i \in 1..Len(calls) : SupabaseLayer_updateProfile_resolve(i)) /\ NoPrev
  \/ (\E id \in {"u1", "u2"} : SupabaseLayer_getProfile(id)) /\ KeepCallBefore

\* getProfile and updateProfile of one single-table layer, each in two steps
\* around its await
SpecOverlap == InitOverlap /\ [][NextOverlap]_vars

\* every getProfile and updateProfile that was started has returned
AllReturned == \A i \in 1..Len(calls) : calls[i].done

\* a getProfile(id) and an updateProfile by user id have both returned
ReadAndUpdateReturned ==
  /\ AllReturned
  /\ \E i, j \in 1..Len(calls) :
       /\ calls[i].op = "getProfile" /\ calls[j].op = "updateProfile"
       /\ calls[i].id = calls[j].id

\* C29: however a getProfile(id) and an updateProfile by user id of one remote
\* layer interleave, once both have returned the cache holds no profile older
\* than the stored one, so the next getProfile(id) returns the updated profile
C29_NoStaleProfileAfterBoth ==
  ReadAndUpdateReturned => \A pr \in cache : pr = ProfileRow(pr.id)

\* a getProfile that followed a read and an update which had both returned
\* answered with a profile that is no longer the stored one
C29_StaleProfileReturned ==
  /\ ReadAndUpdateReturned
  /\ last.op = "getProfile"
  /\ prev.op = "updateProfile"
  /\ last.result # ProfileRow(last.args.id)
  /\ last.result \in cache

\* ------------------------------------------------------------- listeners of unmounted runs
\* the async set-up of run i of the effect has finished (or was rejected)
SetUpFinished(i) == mounts[i].pc \in {"done", "rejected"}

\* C30: however the async set-up of a run of the effect in src/App.tsx and its
\* cleanup interleave, once the cleanup has run and the set-up has finished the
\* auth-state-change listener of that run is no longer subscribed
C30_NoListenerAfterCleanup ==
  \A i \in 1..Len(mounts) :
    (env.build = AppA /\ mounts[i].cleaned /\ SetUpFinished(i)) => ~mounts[i].listening

\* a cleanup that runs after the set-up has assigned unsub removes the listener
C30_LateCleanupUnsubscribes ==
  [][\A i \in 1..Len(mounts) :
       (mounts[i].pc = "done" /\ ~mounts[i].cleaned /\ mounts'[i].cleaned) =>
         ~mounts'[i].listening]_vars

\* mount, unmount, mount: the first run was cleaned up before its set-up
\* finished and its listener is subscribed next to the second run's
C30_TwoListeners ==
  /\ Len(mounts) = 2
  /\ mounts[1].cleaned
  /\ mounts[1].listening
  /\ mounts[2].listening /\ ~mounts[2].cleaned
====
